---- MODULE Spec2Model ----
(***************************************************************************)
(* Discrete-event engine of the cargo-hitchhiking simulation               *)
(* (src/sim/engine.py, src/sim/events.py, src/sim/entities.py,             *)
(* src/sim/matcher/greedy.py, src/sim/matcher/filters.py, src/sim/kpi.py). *)
(*                                                                         *)
(* Time is counted in whole minutes after SIMULATION_START_TIME (08:00).   *)
(* A location is a kilometre mark on a line; the distance of two locations *)
(* is the difference of their marks (calculate_distance is the great-      *)
(* circle distance, which the model replaces by this metric).  The mark 0  *)
(* is the coordinate (0.0, 0.0) that Driver() uses as default location; it *)
(* lies about 8450 km from the city.  An absent timestamp (None) is NoTime *)
(* and an absent id (None) is NoId.                                        *)
(*                                                                         *)
(* Besides the fields of SimulationState the state holds history: log is   *)
(* the event log of run_simulation; last_accepts and last_calls are the    *)
(* acceptances and the matcher calls of the event just processed (empty    *)
(* unless it was a TICK); reachable is the set of orders some driver could *)
(* have reached by their latest departure at some tick; raised tells that  *)
(* an event handler ended with an exception, which ends the run.           *)
(***************************************************************************)
EXTENDS Integers, Sequences, FiniteSets, TLC

VARIABLES orders, drivers, unassigned_orders, assigned_orders,
          available_drivers, event_queue, current_time, tick_number,
          completed_deliveries, metrics, log, last_accepts, last_calls, raised,
          reachable, fleets, pricing, config

vars == <<orders, drivers, unassigned_orders, assigned_orders,
          available_drivers, event_queue, current_time, tick_number,
          completed_deliveries, metrics, log, last_accepts, last_calls, raised,
          reachable, fleets, pricing, config>>

(* ---------------- bounds of the model ---------------- *)
NumOrders == 3
NumDrivers == 2
MaxCancellations == 1
(* _create_yango_driver gives a Yango driver 12 order slots and            *)
(* _create_shahzore_driver gives a truck 2; the model scales both to its   *)
(* number of orders                                                        *)
YangoMaxOrders == 2
ShahzoreMaxOrders == 1
(* _generate_fleets makes FLEET_CONFIG['num_vehicles'] = 10 vehicles; the  *)
(* model scales the number                                                 *)
NumFleets == 1

(* ---------------- program constants ---------------- *)
SIMULATION_START_TIME == 0
SIMULATION_END_TIME == 720
TICK_INTERVAL_MINUTES == 15
MaxDeliveryTime == 30
LateDeliveryDelay == 5
DefaultSpeedKmph == 30
DefaultMaxOrders == 3
MetroMaxOrders == 3
DefaultCapacityVolume == 100
DefaultMaxWeight == 50
DefaultRating == 45
OriginLoc == 0
FleetCapacityVolume == 500
FleetMaxWeight == 200
FleetDispatchThreshold == 30

NoTime == -1
NoId == "none"

OrderId(i) == "order_" \o ToString(i - 1)
DriverId(i) == "driver_" \o ToString(i - 1)
OrderSeq == [i \in 1..NumOrders |-> OrderId(i)]
DriverSeq == [i \in 1..NumDrivers |-> DriverId(i)]
OrderIds == {OrderSeq[i] : i \in 1..NumOrders}
DriverIds == {DriverSeq[i] : i \in 1..NumDrivers}
FleetSeq == [i \in 1..NumFleets |-> "fleet_" \o ToString(i - 1)]

(* locations, for a configuration with one Metro store and one bus stop:   *)
(* the store, where every order is picked up, the bus stop 4 km from it,   *)
(* and two customer locations in different delivery areas; a delivery area *)
(* is a grid cell of 0.1 degree, about 11 km                               *)
StoreLoc == 8450
BusStopLoc == 8454
NearDrop == 8460
FarDrop == 8474
CellKm == 11

Abs(x) == IF x < 0 THEN 0 - x ELSE x
Min(a, b) == IF a < b THEN a ELSE b

calculate_distance(a, b) == Abs(a - b)

TravelMinutes(dist, speed) == (dist * 60) \div speed

(* ---------------- configuration tables (src/sim/config.py) ---------------- *)

(* Prices are in 1/10000 of a currency unit, factors of the tables in      *)
(* tenths, the commission rate in hundredths.                              *)

SizeClasses == {"XS", "S", "M", "L", "XL"}

ServiceLevels == {"same_day", "next_day", "flex"}

(* SIZE_BASE_PRICES.get(size, 1.0), in tenths per km *)
SIZE_BASE_PRICES(size) ==
    CASE size = "XS" -> 5
      [] size = "S" -> 8
      [] size = "M" -> 12
      [] size = "L" -> 18
      [] size = "XL" -> 25
      [] OTHER -> 10

(* SURGE_MULTIPLIERS.get(time_slot, 1.0), in tenths *)
SURGE_MULTIPLIERS(time_slot) ==
    CASE time_slot = "morning" -> 13
      [] time_slot = "midday" -> 10
      [] time_slot = "evening" -> 14
      [] time_slot = "night" -> 8
      [] OTHER -> 10

(* SERVICE_LEVEL_FACTORS.get(level, 1.0), in tenths *)
SERVICE_LEVEL_FACTORS(level) ==
    CASE level = "same_day" -> 12
      [] level = "next_day" -> 10
      [] level = "flex" -> 8
      [] OTHER -> 10

(* TIME_SLOT_DISCOUNTS[level] when the level has a discount, else 0.0; in  *)
(* tenths                                                                  *)
TIME_SLOT_DISCOUNTS(level) ==
    CASE level = "next_day" -> 1
      [] level = "flex" -> 2
      [] OTHER -> 0

COMMISSION_RATE == 15

(* current_time.hour of a time in minutes after 08:00 *)
HourOf(t) == (8 + t \div 60) % 24

(* get_time_slot *)
get_time_slot(t) ==
    IF 8 <= HourOf(t) /\ HourOf(t) < 10 THEN "morning"
    ELSE IF 10 <= HourOf(t) /\ HourOf(t) < 16 THEN "midday"
    ELSE IF 16 <= HourOf(t) /\ HourOf(t) < 20 THEN "evening"
    ELSE "night"

GRID_SIZE_KM == 5

(* get_grid_cell: the cell of a location on the road *)
get_grid_cell(loc) == loc \div GRID_SIZE_KM

(* get_surge_multiplier: the surge of the time slot; the grid cell has no  *)
(* influence                                                               *)
get_surge_multiplier(grid_cell, time_slot) == SURGE_MULTIPLIERS(time_slot)

(* ---------------- pricing (src/sim/policies/pricing.py) ---------------- *)

(* base_distance_km = None *)
NoDistance == 0 - 1

Max(a, b) == IF a > b THEN a ELSE b

(* calculate_order_price with a minimum of 60% of the base price: a faulty *)
(* variant, used to show that DynamicPriceIsFixedTimesFactors depends on   *)
(* the minimum never taking effect                                         *)
calculate_order_price_floor_60(o, t, pricing_model, base_distance_km) ==
    LET dist == IF base_distance_km = NoDistance
                THEN calculate_distance(o.pickup, o.drop)
                ELSE base_distance_km
        base_price == SIZE_BASE_PRICES(o.parcel_size_class) * dist
        final_price == base_price
                         * get_surge_multiplier(get_grid_cell(o.pickup), get_time_slot(t))
                         * SERVICE_LEVEL_FACTORS(o.service_level)
                         * (10 - TIME_SLOT_DISCOUNTS(o.service_level))
    IN  IF pricing_model = "fixed"
        THEN base_price * 1000
        ELSE Max(final_price, base_price * 600)

(* calculate_order_price: base_price is in tenths, the result in 1/10000   *)
calculate_order_price(o, t, pricing_model, base_distance_km) ==
    LET dist == IF base_distance_km = NoDistance
                THEN calculate_distance(o.pickup, o.drop)
                ELSE base_distance_km
        base_price == SIZE_BASE_PRICES(o.parcel_size_class) * dist
        final_price == base_price
                         * get_surge_multiplier(get_grid_cell(o.pickup), get_time_slot(t))
                         * SERVICE_LEVEL_FACTORS(o.service_level)
                         * (10 - TIME_SLOT_DISCOUNTS(o.service_level))
    IN  IF pricing_model = "fixed"
        THEN base_price * 1000
        ELSE Max(final_price, base_price * 500)

(* calculate_platform_profit as price minus wage: a faulty variant, used   *)
(* to show that ProfitIsCommission depends on the commission rule          *)
calculate_platform_profit_minus_wage(order_price, driver_wage) ==
    (order_price - driver_wage) * 100

(* calculate_platform_profit with the default commission rate; the result  *)
(* is in 1/100 of the unit of the price                                    *)
calculate_platform_profit(order_price, driver_wage) ==
    LET commission_earnings == order_price * COMMISSION_RATE
        net_profit == commission_earnings
    IN  net_profit

(* ---------------- order generation (src/sim/engine.py) ---------------- *)

MetroBaseRate == 3

MinBasePrice == 500000

MaxBasePrice == 2000000

(* the size class of a parcel of the given volume (size_volume table of    *)
(* _create_realistic_order)                                                *)
SizeClassOf(vol) ==
    IF vol <= 5 THEN "S" ELSE IF vol <= 15 THEN "M"
    ELSE IF vol <= 30 THEN "L" ELSE "XL"

(* _calculate_base_price, in 1/10000 of a currency unit *)
calculate_base_price(distance, size_class, service_level) ==
    LET size_factor == CASE size_class = "XS" -> 8
                         [] size_class = "S" -> 9
                         [] size_class = "M" -> 10
                         [] size_class = "L" -> 12
                         [] size_class = "XL" -> 15
                         [] OTHER -> 10
        service_factor == CASE service_level = "same_day" -> 13
                            [] service_level = "next_day" -> 10
                            [] service_level = "flex" -> 8
                            [] OTHER -> 10
        base_price == MetroBaseRate * distance * size_factor * service_factor * 100
    IN  Max(MinBasePrice, Min(MaxBasePrice, base_price))

(* ---------------- entities (src/sim/entities.py) ---------------- *)

(* Order(...) as _create_realistic_order builds it: PUBLISHED, no driver *)
NewOrder(ld, vol, drop) ==
    [status |-> "PUBLISHED", assigned_driver_id |-> NoId,
     accepted_at |-> NoTime, pickup_time |-> NoTime, delivered_at |-> NoTime,
     latest_departure |-> ld, time_window_end |-> ld + 60,
     parcel_volume_l |-> vol, parcel_weight_kg |-> 30,
     pickup |-> StoreLoc, drop |-> drop,
     parcel_size_class |-> SizeClassOf(vol), service_level |-> "same_day",
     base_price |-> calculate_base_price(calculate_distance(StoreLoc, drop),
                                         SizeClassOf(vol), "same_day")]

(* Driver(...) as the _create_*_driver methods build it *)
NewDriver(type, maxo, loc, from, to, rating) ==
    [driver_type |-> type, max_orders |-> maxo, current_orders |-> <<>>,
     total_earnings |-> 0, loc |-> loc,
     available_from |-> from, available_to |-> to,
     capacity_volume_l |-> DefaultCapacityVolume,
     max_weight_kg |-> DefaultMaxWeight,
     speed_kmph |-> DefaultSpeedKmph, rating |-> rating]

(* Driver() with the dataclass defaults, as DriverArrival.apply builds it *)
DefaultDriver(ts) ==
    NewDriver("general", DefaultMaxOrders, OriginLoc, ts, ts, DefaultRating)

(* Fleet(...) as _generate_fleets builds it *)
NewFleet ==
    [capacity_volume_l |-> FleetCapacityVolume,
     max_weight_kg |-> FleetMaxWeight, is_available |-> TRUE]

(* Fleet.can_handle_order *)
can_handle_order(f, o) ==
    /\ o.parcel_volume_l <= f.capacity_volume_l
    /\ o.parcel_weight_kg <= f.max_weight_kg

(* the fleet vehicles that are available and can carry the order *)
FleetsFor(F, o) ==
    {i \in 1..Len(F) : F[i].is_available /\ can_handle_order(F[i], o)}

(* Fleet.dispatch *)
dispatch(f) == [f EXCEPT !.is_available = FALSE]

(* Order.is_expired *)
is_expired(o, t) == t > o.latest_departure

(* Order.accept *)
accept(o, did, t) ==
    [o EXCEPT !.status = "ACCEPTED", !.assigned_driver_id = did,
              !.accepted_at = t]

(* Order.deliver *)
deliver(o, t) == [o EXCEPT !.status = "DELIVERED", !.delivered_at = t]

(* Order.cancel *)
cancel(o) == [o EXCEPT !.status = "CANCELLED"]

(* Order.expire *)
expire(o) == [o EXCEPT !.status = "EXPIRED"]

(* Driver.can_accept_order with the capacity comparisons inverted: a       *)
(* faulty variant, used to show that EventuallyDelivered depends on them   *)
can_accept_order_inverted(d, o) ==
    IF o.parcel_volume_l < d.capacity_volume_l
        \/ o.parcel_weight_kg < d.max_weight_kg
    THEN FALSE
    ELSE IF Len(d.current_orders) >= d.max_orders THEN FALSE
    ELSE TRUE

(* Driver.can_accept_order *)
can_accept_order(d, o) ==
    IF o.parcel_volume_l > d.capacity_volume_l
        \/ o.parcel_weight_kg > d.max_weight_kg
    THEN FALSE
    ELSE IF Len(d.current_orders) >= d.max_orders THEN FALSE
    ELSE TRUE

(* list.remove(x): drops the first occurrence *)
RECURSIVE RemoveFirst(_, _)
RemoveFirst(s, x) ==
    IF s = <<>> THEN <<>>
    ELSE IF Head(s) = x THEN Tail(s)
    ELSE <<Head(s)>> \o RemoveFirst(Tail(s), x)

InSeq(s, x) == \E i \in 1..Len(s) : s[i] = x

(* Driver.accept_order *)
accept_order(d, oid) == [d EXCEPT !.current_orders = Append(@, oid)]

(* Driver.complete_order *)
complete_order(d, oid, earnings) ==
    IF InSeq(d.current_orders, oid)
    THEN [d EXCEPT !.current_orders = RemoveFirst(@, oid),
                   !.total_earnings = @ + earnings]
    ELSE d

(* ---------------- events (src/sim/events.py) ---------------- *)

MkEvent(kind, ts, oid, did, dist, mins, etype, n) ==
    [kind |-> kind, timestamp |-> ts, order_id |-> oid, driver_id |-> did,
     actual_distance_km |-> dist, actual_time_minutes |-> mins,
     entity_type |-> etype, tick_number |-> n, seq |-> 0]

DriverArrivalEvent(ts, did) == MkEvent("DRIVER_ARRIVAL", ts, NoId, did, 0, 0, NoId, 0)
TickEvent(ts, n) == MkEvent("TICK", ts, NoId, NoId, 0, 0, NoId, n)
DeliveryCompleteEvent(ts, oid, did, dist, mins) ==
    MkEvent("DELIVERY_COMPLETE", ts, oid, did, dist, mins, NoId, 0)
OrderPickupEvent(ts, oid, did) == MkEvent("ORDER_PICKUP", ts, oid, did, 0, 0, NoId, 0)
CancellationEvent(ts, id, etype) ==
    IF etype = "order" THEN MkEvent("CANCELLATION", ts, id, NoId, 0, 0, etype, 0)
    ELSE MkEvent("CANCELLATION", ts, NoId, id, 0, 0, etype, 0)

(* the position of each event of q after a stable sort by timestamp: the   *)
(* event at index j goes behind the events with a smaller timestamp and    *)
(* the earlier events with the same timestamp                              *)
SortRank(q) ==
    [j \in 1..Len(q) |->
        1 + Cardinality({k \in 1..Len(q) :
              \/ q[k].timestamp < q[j].timestamp
              \/ q[k].timestamp = q[j].timestamp /\ k < j})]

(* list.sort(key=lambda e: e.timestamp): a stable sort *)
SortByTimestamp(q) ==
    CHOOSE sorted \in {[i \in 1..Len(v) |-> v[CHOOSE j \in 1..Len(v) : rank[j] = i]] :
                          <<v, rank>> \in {<<w, SortRank(w)>> : w \in {q}}} : TRUE

(* _schedule_event without the sort: a faulty variant, used to show that   *)
(* MonotonicTime depends on the sort                                       *)
ScheduleEventUnsorted(q, e) == Append(q, e)

IsSorted(q) == \A i \in 1..(Len(q) - 1) : q[i].timestamp <= q[i + 1].timestamp

(* the event with its scheduling number: the events logged, the event      *)
(* being processed and the events of the queue were scheduled before it    *)
Numbered(q, e) == [e EXCEPT !.seq = Len(log) + Len(q) + 2]

(* _schedule_event with a sort that puts the new event before the queued   *)
(* events of the same timestamp: a faulty variant, used to show that       *)
(* InsertionOrderTieBreak depends on the stable sort                       *)
ScheduleEventBeforeEqual(q, e) ==
    CHOOSE sorted \in
        {SubSeq(v, 1, k) \o <<Numbered(v, e)>> \o SubSeq(v, k + 1, Len(v)) :
           <<v, k>> \in {<<w, Cardinality({i \in 1..Len(w) :
                                     w[i].timestamp < e.timestamp})>> :
                            w \in {q}}} : TRUE

(* _schedule_event: append, then sort by timestamp.  When q is sorted the  *)
(* stable sort leaves e behind the events that are not later than e and    *)
(* before the later ones.                                                  *)
ScheduleEvent(q, e) ==
    CHOOSE sorted \in
        {IF IsSorted(v)
         THEN SubSeq(v, 1, k) \o <<Numbered(v, e)>> \o SubSeq(v, k + 1, Len(v))
         ELSE SortByTimestamp(Append(v, Numbered(v, e))) :
           <<v, k>> \in {<<w, Cardinality({i \in 1..Len(w) :
                                     w[i].timestamp <= e.timestamp})>> :
                            w \in {q}}} : TRUE

(* ---------------- feasibility filter (src/sim/matcher/filters.py) ------- *)

(* the arithmetic of check_pickup_reachability *)
PickupArrival(o, d, t) ==
    t + TravelMinutes(calculate_distance(d.loc, o.pickup), d.speed_kmph)

(* check_time_window_feasibility and check_pickup_reachability evaluate    *)
(* datetime.timedelta on the class datetime.datetime, which has no such    *)
(* attribute: each of them raises AttributeError before it compares        *)
check_time_window_feasibility(o, d, t) == "raise"

check_pickup_reachability(o, d, t) == "raise"

check_detour_feasibility(o, d, max_detour) ==
    LET direct == calculate_distance(o.pickup, o.drop)
        actual == calculate_distance(d.loc, o.pickup)
                    + calculate_distance(o.pickup, o.drop)
    IN  actual - direct <= max_detour

(* is_feasible_match: "True", "False", or "raise" when a check raises *)
is_feasible_match(o, d, t) ==
    IF ~can_accept_order(d, o) THEN "False"
    ELSE check_time_window_feasibility(o, d, t)

(* ---------------- matching engine (src/sim/matcher/greedy.py) ----------- *)

get_delivery_area(o) == o.drop \div CellKm

(* the keys of order_groups, in the order of their first appearance *)
RECURSIVE AreaKeys(_, _)
AreaKeys(ords, O) ==
    IF ords = <<>> THEN <<>>
    ELSE LET rest == AreaKeys(SubSeq(ords, 1, Len(ords) - 1), O)
             a == get_delivery_area(O[ords[Len(ords)]])
         IN  IF InSeq(rest, a) THEN rest ELSE Append(rest, a)

RECURSIVE SumDropDistance(_, _, _)
SumDropDistance(d, os, O) ==
    IF os = <<>> THEN 0
    ELSE calculate_distance(d.loc, O[Head(os)].drop)
           + SumDropDistance(d, Tail(os), O)

(* valid_orders of one area for one driver *)
ValidOrders(d, area, ords, O, assigned) ==
    SelectSeq(ords, LAMBDA oid : /\ get_delivery_area(O[oid]) = area
                                 /\ oid \notin assigned
                                 /\ can_accept_order(d, O[oid]))

(* score = len(valid) / (1 + total/len(valid)), kept as a fraction *)
AreaScore(n, total) == [num |-> n * n, den |-> n + total]

ScoreGreater(a, b) == a.num * b.den > b.num * a.den

(* the loop over order_groups: the first area with the strictly best score *)
RECURSIVE BestOrders(_, _, _, _, _, _, _)
BestOrders(keys, d, ords, O, assigned, best_score, best_orders) ==
    IF keys = <<>> THEN best_orders
    ELSE LET valid == ValidOrders(d, Head(keys), ords, O, assigned)
             score == AreaScore(Len(valid), SumDropDistance(d, valid, O))
         IN  IF valid # <<>> /\ ScoreGreater(score, best_score)
             THEN BestOrders(Tail(keys), d, ords, O, assigned, score, valid)
             ELSE BestOrders(Tail(keys), d, ords, O, assigned,
                             best_score, best_orders)

PairsOf(os, did) == [i \in 1..Len(os) |-> <<os[i], did>>]

SeqToSet(s) == {s[i] : i \in 1..Len(s)}

(* the mutant of OrdersToAssign: every order of the best area is taken *)
OrdersToAssignAll(d, best) == best

(* best_orders[:min(driver.max_orders, len(best_orders))] *)
OrdersToAssign(d, best) == SubSeq(best, 1, Min(d.max_orders, Len(best)))

(* the loop over the yango drivers *)
RECURSIVE YangoLoop(_, _, _, _, _, _)
YangoLoop(yd, ords, O, D, assigned, acc) ==
    IF yd = <<>> THEN acc
    ELSE LET d == D[Head(yd)]
             best == BestOrders(AreaKeys(ords, O), d, ords, O, assigned,
                                [num |-> 0, den |-> 1], <<>>)
             take == OrdersToAssign(d, best)
         IN  YangoLoop(Tail(yd), ords, O, D, assigned \cup SeqToSet(take),
                       acc \o PairsOf(take, Head(yd)))

greedy_matching_yango_bus_stop_pickup(ords, drvs, O, D) ==
    YangoLoop(SelectSeq(drvs, LAMBDA did : D[did].driver_type = "yango"),
              ords, O, D, {}, <<>>)

(* driver_priority, in tenths *)
DriverPriority(d) ==
    IF d.driver_type = "yango" THEN 5
    ELSE IF d.driver_type = "metro" THEN 8
    ELSE 10

AdjustedScore(o, d) == calculate_distance(d.loc, o.pickup) * DriverPriority(d)

(* the loop over remaining_drivers: the first driver with the strictly     *)
(* smallest adjusted score; NoId when none can accept the order            *)
RECURSIVE BestDriver(_, _, _, _, _)
BestDriver(rd, o, D, assigned_drivers, best) ==
    IF rd = <<>> THEN best
    ELSE LET did == Head(rd)
         IN  IF /\ did \notin assigned_drivers
                /\ can_accept_order(D[did], o)
                /\ (best = NoId \/ AdjustedScore(o, D[did]) < AdjustedScore(o, D[best]))
             THEN BestDriver(Tail(rd), o, D, assigned_drivers, did)
             ELSE BestDriver(Tail(rd), o, D, assigned_drivers, best)

(* the loop over remaining_orders *)
RECURSIVE FallbackLoop(_, _, _, _, _, _)
FallbackLoop(ro, rd, O, D, assigned_drivers, acc) ==
    IF ro = <<>> THEN acc
    ELSE LET best == BestDriver(rd, O[Head(ro)], D, assigned_drivers, NoId)
         IN  IF best # NoId
             THEN FallbackLoop(Tail(ro), rd, O, D, assigned_drivers \cup {best},
                               Append(acc, <<Head(ro), best>>))
             ELSE FallbackLoop(Tail(ro), rd, O, D, assigned_drivers, acc)

greedy_matching_with_bundling(ords, drvs, O, D) ==
    LET yango == greedy_matching_yango_bus_stop_pickup(ords, drvs, O, D)
        assigned_o == {yango[i][1] : i \in 1..Len(yango)}
        assigned_d == {yango[i][2] : i \in 1..Len(yango)}
        remaining_orders == SelectSeq(ords, LAMBDA oid : oid \notin assigned_o)
        remaining_drivers == SelectSeq(drvs, LAMBDA did : did \notin assigned_d)
    IN  IF remaining_orders = <<>> \/ remaining_drivers = <<>> THEN yango
        ELSE FallbackLoop(remaining_orders, remaining_drivers, O, D,
                          assigned_d, yango)

(* greedy_matching with allow_bundling=True, as trigger_matching calls it *)
greedy_matching(ords, drvs, O, D) == greedy_matching_with_bundling(ords, drvs, O, D)

(* ---------------- pricing (src/sim/policies/pricing.py) ---------------- *)

(* calculate_driver_wage with wage_model "dynamic" and the default surge    *)
(* multiplier 1.0, in 1/10000 of a currency unit; the rating is in tenths   *)
calculate_driver_wage(distance_km, time_minutes, rating) ==
    LET base_wage == distance_km * 3000 + time_minutes * 150
        rating_bonus == (base_wage * (rating - 40)) \div 100
        wage == base_wage + rating_bonus
    IN  IF wage > 10000 THEN wage ELSE 10000

(* ---------------- KPI aggregator (src/sim/kpi.py) ---------------- *)

CountStatus(O, statuses) == Cardinality({oid \in DOMAIN O : O[oid].status \in statuses})

(* _update_order_metrics without the adjustment of expired_orders: a       *)
(* faulty variant, used to show that KpiConservation depends on it         *)
update_order_metrics_unadjusted(O) ==
    [total_orders |-> Cardinality(DOMAIN O),
     matched_orders |-> CountStatus(O, {"ACCEPTED", "DELIVERED"}),
     delivered_orders |-> CountStatus(O, {"DELIVERED"}),
     expired_orders |-> CountStatus(O, {"EXPIRED"}),
     cancelled_orders |-> CountStatus(O, {"CANCELLED"})]

(* _update_order_metrics counting only the ACCEPTED orders as matched: a   *)
(* faulty variant, used to show that CountsByStatusWithAdjustment depends  *)
(* on the statuses counted                                                 *)
update_order_metrics_accepted_only(O) ==
    LET total == Cardinality(DOMAIN O)
        matched == CountStatus(O, {"ACCEPTED"})
        expired == CountStatus(O, {"EXPIRED"})
        cancelled == CountStatus(O, {"CANCELLED"})
        total_accounted == matched + expired + cancelled
    IN  [total_orders |-> total,
         matched_orders |-> matched,
         delivered_orders |-> CountStatus(O, {"DELIVERED"}),
         expired_orders |->
             IF total > 0 /\ total_accounted # total
             THEN total - total_accounted + expired
             ELSE expired,
         cancelled_orders |-> cancelled]

(* KPITracker._update_order_metrics *)
update_order_metrics(O) ==
    LET total == Cardinality(DOMAIN O)
        matched == CountStatus(O, {"ACCEPTED", "DELIVERED"})
        expired == CountStatus(O, {"EXPIRED"})
        cancelled == CountStatus(O, {"CANCELLED"})
        total_accounted == matched + expired + cancelled
    IN  [total_orders |-> total,
         matched_orders |-> matched,
         delivered_orders |-> CountStatus(O, {"DELIVERED"}),
         expired_orders |->
             IF total > 0 /\ total_accounted # total
             THEN total - total_accounted + expired
             ELSE expired,
         cancelled_orders |-> cancelled]

(* the sum of base_price over the orders of a list, in the order of the    *)
(* list                                                                    *)
RECURSIVE SumBasePrice(_, _)
SumBasePrice(O, oids) ==
    IF oids = <<>> THEN 0
    ELSE O[Head(oids)].base_price + SumBasePrice(O, Tail(oids))

(* sum(calculate_platform_profit(o.base_price, 0) for o in delivered_orders) *)
RECURSIVE SumPlatformProfit(_, _)
SumPlatformProfit(O, oids) ==
    IF oids = <<>> THEN 0
    ELSE calculate_platform_profit(O[Head(oids)].base_price, 0)
           + SumPlatformProfit(O, Tail(oids))

(* the orders of a list that are DELIVERED, in the order of the list *)
RECURSIVE DeliveredOf(_, _)
DeliveredOf(O, oids) ==
    IF oids = <<>> THEN <<>>
    ELSE IF O[Head(oids)].status = "DELIVERED"
         THEN <<Head(oids)>> \o DeliveredOf(O, Tail(oids))
         ELSE DeliveredOf(O, Tail(oids))

(* update_metrics adding the revenue of a call to the revenue of the       *)
(* tracker: a faulty variant, used to show that UpdateMetricsIdempotent     *)
(* depends on the totals being recomputed                                  *)
update_metrics_accumulating(m, O, oids, D, F) ==
    LET om == update_order_metrics(O)
        delivered_orders == DeliveredOf(O, oids)
    IN  [total_orders |-> om.total_orders,
         matched_orders |-> om.matched_orders,
         delivered_orders |-> om.delivered_orders,
         expired_orders |-> om.expired_orders,
         cancelled_orders |-> om.cancelled_orders,
         total_drivers |-> Cardinality(DOMAIN D),
         active_drivers |-> Cardinality({did \in DOMAIN D : D[did].current_orders # <<>>}),
         total_revenue |-> m.total_revenue + SumBasePrice(O, delivered_orders),
         total_platform_profit |->
             m.total_platform_profit + SumPlatformProfit(O, delivered_orders),
         fleet_usage_count |-> Cardinality({i \in DOMAIN F : ~F[i].is_available})]

(* KPITracker.update_metrics on a tracker with the metrics m; oids is the  *)
(* iteration order of orders.values().  The counts, the driver and fleet   *)
(* counts and the financial totals are modelled; the rates and averages    *)
(* derived from them are left out.  The totals are assigned only when an   *)
(* order is DELIVERED.                                                     *)
update_metrics(m, O, oids, D, F) ==
    LET om == update_order_metrics(O)
        delivered_orders == DeliveredOf(O, oids)
    IN  [total_orders |-> om.total_orders,
         matched_orders |-> om.matched_orders,
         delivered_orders |-> om.delivered_orders,
         expired_orders |-> om.expired_orders,
         cancelled_orders |-> om.cancelled_orders,
         total_drivers |-> Cardinality(DOMAIN D),
         active_drivers |-> Cardinality({did \in DOMAIN D : D[did].current_orders # <<>>}),
         total_revenue |->
             IF delivered_orders # <<>>
             THEN SumBasePrice(O, delivered_orders)
             ELSE m.total_revenue,
         total_platform_profit |->
             IF delivered_orders # <<>>
             THEN SumPlatformProfit(O, delivered_orders)
             ELSE m.total_platform_profit,
         fleet_usage_count |-> Cardinality({i \in DOMAIN F : ~F[i].is_available})]

(* ---------------- SimulationState (src/sim/engine.py) ---------------- *)

(* SimulationState._calculate_match_profit: the wage of the driver for the *)
(* way to the pickup and to the drop, then the platform profit of the      *)
(* order's base_price and this wage                                        *)
calculate_match_profit(o, d) ==
    LET distance == calculate_distance(d.loc, o.pickup)
                      + calculate_distance(o.pickup, o.drop)
        time_minutes == TravelMinutes(distance, d.speed_kmph)
        driver_wage == calculate_driver_wage(distance, time_minutes, d.rating)
    IN  [driver_wage |-> driver_wage,
         platform_profit |-> calculate_platform_profit(o.base_price, driver_wage)]

(* the part of the state that a TICK works on; accepts and calls record,   *)
(* for the tick being processed, the acceptances made and the matcher      *)
(* calls with their results                                                *)
StateRec ==
    [orders |-> orders, drivers |-> drivers,
     unassigned_orders |-> unassigned_orders,
     assigned_orders |-> assigned_orders,
     available_drivers |-> available_drivers,
     event_queue |-> Tail(event_queue),
     accepts |-> <<>>, calls |-> <<>>]

(* _schedule_delivery_completion that schedules nothing for a delivery     *)
(* projected after the simulation end: a faulty variant, used to show that *)
(* LateDeliveriesProcessed depends on the re-scheduling                    *)
schedule_delivery_dropping_late(q, o, d, oid, did, now) ==
    LET pickup_distance == calculate_distance(d.loc, o.pickup)
        delivery_distance == calculate_distance(o.pickup, o.drop)
        time_to_pickup == TravelMinutes(pickup_distance, d.speed_kmph)
        delivery_time == TravelMinutes(delivery_distance, d.speed_kmph)
        total_time == Min(time_to_pickup + delivery_time, MaxDeliveryTime)
        q1 == IF now + total_time > SIMULATION_END_TIME
              THEN q
              ELSE ScheduleEvent(q, DeliveryCompleteEvent(now + total_time, oid,
                            did, pickup_distance + delivery_distance, total_time))
    IN  ScheduleEvent(q1, OrderPickupEvent(now + time_to_pickup, oid, did))

(* _schedule_delivery_completion scheduling one more TICK together with    *)
(* the completion: a faulty variant, used to show that EveryRunTerminates  *)
(* depends on events scheduling no further matching                        *)
schedule_delivery_with_tick(q, o, d, oid, did, now) ==
    LET pickup_distance == calculate_distance(d.loc, o.pickup)
        delivery_distance == calculate_distance(o.pickup, o.drop)
        time_to_pickup == TravelMinutes(pickup_distance, d.speed_kmph)
        delivery_time == TravelMinutes(delivery_distance, d.speed_kmph)
        total_time == Min(time_to_pickup + delivery_time, MaxDeliveryTime)
        completion_time ==
            IF now + total_time > SIMULATION_END_TIME
            THEN now + LateDeliveryDelay
            ELSE now + total_time
        q1 == ScheduleEvent(q, DeliveryCompleteEvent(completion_time, oid, did,
                                pickup_distance + delivery_distance, total_time))
        q2 == ScheduleEvent(q1, TickEvent(completion_time, 0))
    IN  ScheduleEvent(q2, OrderPickupEvent(now + time_to_pickup, oid, did))

(* SimulationState._schedule_delivery_completion *)
schedule_delivery_completion(q, o, d, oid, did, now) ==
    LET pickup_distance == calculate_distance(d.loc, o.pickup)
        delivery_distance == calculate_distance(o.pickup, o.drop)
        time_to_pickup == TravelMinutes(pickup_distance, d.speed_kmph)
        delivery_time == TravelMinutes(delivery_distance, d.speed_kmph)
        total_time == Min(time_to_pickup + delivery_time, MaxDeliveryTime)
        completion_time ==
            IF now + total_time > SIMULATION_END_TIME
            THEN now + LateDeliveryDelay
            ELSE now + total_time
        q1 == ScheduleEvent(q, DeliveryCompleteEvent(completion_time, oid, did,
                                pickup_distance + delivery_distance, total_time))
    IN  ScheduleEvent(q1, OrderPickupEvent(now + time_to_pickup, oid, did))

(* the body of the loop "for order, driver in assignments" without the     *)
(* removal of a full driver from available_drivers: a faulty variant, used *)
(* to show that CapacityInvariant depends on the removal                   *)
AcceptAssignmentKeepsDriver(st, oid, did, now) ==
    IF oid \in st.unassigned_orders /\ did \in st.available_drivers
    THEN LET o2 == accept(st.orders[oid], did, now)
             d2 == accept_order(st.drivers[did], oid)
         IN  [st EXCEPT
                !.orders[oid] = o2,
                !.drivers[did] = d2,
                !.unassigned_orders = @ \ {oid},
                !.assigned_orders = @ \cup {oid},
                !.event_queue =
                    schedule_delivery_completion(@, o2, d2, oid, did, now)]
    ELSE st

(* the body of the loop "for order, driver in assignments" without the     *)
(* call of driver.accept_order: a faulty variant, used to show that        *)
(* OneAcceptancePerTick depends on the driver's list of current orders     *)
AcceptAssignmentForgetsOrder(st, oid, did, now) ==
    IF oid \in st.unassigned_orders /\ did \in st.available_drivers
    THEN LET o == st.orders[oid]
             d == st.drivers[did]
             o2 == accept(o, did, now)
         IN  [st EXCEPT
                !.orders[oid] = o2,
                !.unassigned_orders = @ \ {oid},
                !.assigned_orders = @ \cup {oid},
                !.available_drivers =
                    IF Len(d.current_orders) >= d.max_orders
                    THEN @ \ {did} ELSE @,
                !.event_queue =
                    schedule_delivery_completion(@, o2, d, oid, did, now),
                !.accepts = Append(@, [order_id |-> oid, driver_id |-> did,
                                       time |-> now,
                                       feasible |-> is_feasible_match(o, d, now)])]
    ELSE st

(* the body of the loop "for order, driver in assignments" that takes the  *)
(* order of a skipped pair out of unassigned_orders: a faulty variant,     *)
(* used to show that UnmatchedOrdersWait depends on the skip leaving the   *)
(* order alone                                                             *)
AcceptAssignmentDropsSkipped(st, oid, did, now) ==
    IF oid \in st.unassigned_orders /\ did \in st.available_drivers
    THEN LET o == st.orders[oid]
             d == st.drivers[did]
             o2 == accept(o, did, now)
             d2 == accept_order(d, oid)
         IN  [st EXCEPT
                !.orders[oid] = o2,
                !.drivers[did] = d2,
                !.unassigned_orders = @ \ {oid},
                !.assigned_orders = @ \cup {oid},
                !.available_drivers =
                    IF Len(d2.current_orders) >= d2.max_orders
                    THEN @ \ {did} ELSE @,
                !.event_queue =
                    schedule_delivery_completion(@, o2, d2, oid, did, now),
                !.accepts = Append(@, [order_id |-> oid, driver_id |-> did,
                                       time |-> now,
                                       feasible |-> is_feasible_match(o, d, now)])]
    ELSE [st EXCEPT !.unassigned_orders = @ \ {oid}]

(* the body of the loop "for order, driver in assignments"; accepts keeps, *)
(* for each acceptance, what is_feasible_match gives for the pair as it    *)
(* was handed to the matcher                                               *)
AcceptAssignment(st, oid, did, now) ==
    IF oid \in st.unassigned_orders /\ did \in st.available_drivers
    THEN LET o == st.orders[oid]
             d == st.drivers[did]
             o2 == accept(o, did, now)
             d2 == accept_order(d, oid)
         IN  [st EXCEPT
                !.orders[oid] = o2,
                !.drivers[did] = d2,
                !.unassigned_orders = @ \ {oid},
                !.assigned_orders = @ \cup {oid},
                !.available_drivers =
                    IF Len(d2.current_orders) >= d2.max_orders
                    THEN @ \ {did} ELSE @,
                !.event_queue =
                    schedule_delivery_completion(@, o2, d2, oid, did, now),
                !.accepts = Append(@, [order_id |-> oid, driver_id |-> did,
                                       time |-> now,
                                       feasible |-> is_feasible_match(o, d, now)])]
    ELSE st

(* the loop "for order, driver in assignments" *)
RECURSIVE ProcessAssignments(_, _, _)
ProcessAssignments(st, asg, now) ==
    IF asg = <<>> THEN st
    ELSE ProcessAssignments(AcceptAssignment(st, Head(asg)[1], Head(asg)[2], now),
                            Tail(asg), now)

(* the injective sequences over a set: the orders in which a Python set    *)
(* can be iterated                                                         *)
Orderings(S) ==
    {f \in [1..Cardinality(S) -> S] : \A i, j \in 1..Cardinality(S) :
                                         i # j => f[i] # f[j]}

(* SimulationState.trigger_matching, for one iteration order of each set *)
trigger_matching(st, now, ords, drvs) ==
    LET assignments == greedy_matching(ords, drvs, st.orders, st.drivers)
        st2 == ProcessAssignments(st, assignments, now)
    IN  [st2 EXCEPT !.calls = Append(@,
            [assignments |-> assignments,
             offered |-> SeqToSet(ords),
             held |-> [did \in SeqToSet(drvs) |->
                          Len(st.drivers[did].current_orders)],
             max_orders |-> [did \in SeqToSet(drvs) |->
                          st.drivers[did].max_orders]])]

(* the results trigger_matching can have, over the iteration orders *)
MatchingOutcomes(st, now) ==
    IF st.unassigned_orders = {} \/ st.available_drivers = {} THEN {st}
    ELSE {trigger_matching(st, now, ords, drvs) :
            ords \in Orderings(st.unassigned_orders),
            drvs \in Orderings(st.available_drivers)}

(* the expiry loop of Tick.apply without the removal from                  *)
(* unassigned_orders: a faulty variant, used to show that                  *)
(* ExpiredBeforeMatching depends on the removal                            *)
ExpireOrdersKeepsInPool(st, now) ==
    LET expired == {oid \in st.unassigned_orders : is_expired(st.orders[oid], now)}
    IN  [st EXCEPT
           !.orders = [oid \in DOMAIN @ |->
                          IF oid \in expired
                          THEN expire(@[oid])
                          ELSE @[oid]]]

(* the expiry loop of Tick.apply *)
ExpireOrders(st, now) ==
    LET expired == {oid \in st.unassigned_orders : is_expired(st.orders[oid], now)}
    IN  [st EXCEPT
           !.orders = [oid \in DOMAIN @ |->
                          IF oid \in expired
                          THEN expire(@[oid])
                          ELSE @[oid]],
           !.unassigned_orders = @ \ expired]

(* ---------------- setup (CargoHitchhikingSimulation.__init__) ----------- *)

(* The orders a run can start with (_create_realistic_order): the latest   *)
(* departure is one hour before the end of the time window, 11:00 or 21:00;*)
(* the parcel is one that every driver can carry (40 l, 30 kg) or one that *)
(* none can (150 l); the drop location is NearDrop or FarDrop.             *)
OrderProfileSeq ==
    <<NewOrder(180, 40, NearDrop), NewOrder(780, 40, FarDrop),
      NewOrder(180, 150, NearDrop), NewOrder(780, 150, FarDrop)>>

(* The drivers a run can start with, in the order _generate_drivers makes  *)
(* them: Metro drivers (from 08:00, at a bus stop), Yango drivers (from    *)
(* 09:00, at a bus stop), Shahzore trucks (from 09:00, at the store).      *)
DriverProfileSeq ==
    <<NewDriver("metro", MetroMaxOrders, BusStopLoc, 0, 720, 45),
      NewDriver("yango", YangoMaxOrders, BusStopLoc, 60, 600, 45),
      NewDriver("shahzore", ShahzoreMaxOrders, StoreLoc, 60, 600, 40)>>

NonDecreasing(f, n) == \A i \in 1..(n - 1) : f[i] <= f[i + 1]

IndexIn(seq, x) == CHOOSE i \in 1..Len(seq) : seq[i] = x

NumTicks == (SIMULATION_END_TIME - SIMULATION_START_TIME) \div TICK_INTERVAL_MINUTES + 1

(* the events of a list with their scheduling numbers, after n earlier     *)
(* events                                                                  *)
NumberedFrom(es, n) == [i \in 1..Len(es) |-> [es[i] EXCEPT !.seq = n + i]]

(* _schedule_initial_events with a loop "while current_time <               *)
(* SIMULATION_END_TIME": a faulty variant without the TICK of the end of   *)
(* the day, used to show that SetupQueue depends on the loop condition     *)
schedule_initial_events_before_end(D, nd) ==
    SortByTimestamp(NumberedFrom(
        [i \in 1..nd |->
            DriverArrivalEvent(D[DriverId(i)].available_from, DriverId(i))]
        \o [i \in 1..(NumTicks - 1) |->
            TickEvent(SIMULATION_START_TIME + (i - 1) * TICK_INTERVAL_MINUTES, i - 1)],
        0))

(* _schedule_initial_events: one DriverArrival per driver, in the order of *)
(* the drivers dictionary, then one Tick per interval up to and including  *)
(* SIMULATION_END_TIME.  Appending and sorting (stably) after each event   *)
(* gives the stable sort of the events in the order they were appended.    *)
schedule_initial_events(D, nd) ==
    SortByTimestamp(NumberedFrom(
        [i \in 1..nd |->
            DriverArrivalEvent(D[DriverId(i)].available_from, DriverId(i))]
        \o [i \in 1..NumTicks |->
            TickEvent(SIMULATION_START_TIME + (i - 1) * TICK_INTERVAL_MINUTES, i - 1)],
        0))

(* KPIMetrics() *)
InitMetrics ==
    [total_orders |-> 0, matched_orders |-> 0, delivered_orders |-> 0,
     expired_orders |-> 0, cancelled_orders |-> 0,
     total_drivers |-> 0, active_drivers |-> 0,
     total_revenue |-> 0, total_platform_profit |-> 0,
     fleet_usage_count |-> 0]

(* no call of a pricing function was recorded *)
NoCall == [kind |-> "none"]

(* the orders of a dictionary in the order of insertion *)
DictOrder(O) == SelectSeq(OrderSeq, LAMBDA oid : oid \in DOMAIN O)

(* cancellations a caller can schedule before the run *)
CancelTimes == {20, 40}

CancelChoices(oids, dids) ==
    {CancellationEvent(t, oid, "order") : t \in CancelTimes, oid \in oids}
      \cup {CancellationEvent(t, did, "driver") : t \in CancelTimes, did \in dids}

(* The state after construction with no orders and nd drivers, followed by *)
(* the cancellations cancels.  Order ids carry no meaning (the sets of ids *)
(* are iterated in any order), so the profiles are drawn in non-decreasing *)
(* order.                                                                  *)
generate_orders(no, oi) ==
    [oid \in {OrderId(i) : i \in 1..no} |->
        OrderProfileSeq[oi[CHOOSE i \in 1..no : OrderId(i) = oid]]]

generate_drivers(nd, di) ==
    [did \in {DriverId(i) : i \in 1..nd} |->
        DriverProfileSeq[di[CHOOSE i \in 1..nd : DriverId(i) = did]]]

SetupState(no, nd, oi, di, cancels, cfg) ==
    LET O == generate_orders(no, oi)
        D == generate_drivers(nd, di)
    IN  [orders |-> O,
         drivers |-> D,
         unassigned_orders |-> {OrderId(i) : i \in 1..no},
         available_drivers |-> {DriverId(i) : i \in 1..nd},
         event_queue |-> SortByTimestamp(schedule_initial_events(D, nd)
                                           \o NumberedFrom(cancels, nd + NumTicks)),
         fleets |-> [i \in 1..NumFleets |-> NewFleet],
         config |-> cfg]

(* a value that a configuration does not give *)
Missing == 0 - 1

(* the configuration that asks for no orders and for the drivers di *)
ConfigOf(no, nd, di) ==
    [total_orders |-> no,
     metro_drivers |-> Cardinality({i \in 1..nd : di[i] = 1}),
     yango_drivers |-> Cardinality({i \in 1..nd : di[i] = 2}),
     shahzore_trucks |-> Cardinality({i \in 1..nd : di[i] = 3}),
     max_detour_km |-> Missing]

InitWithConfig(no, nd, oi, di, cancels, cfg) ==
    /\ NonDecreasing(oi, no)
    /\ NonDecreasing(di, nd)
    /\ orders = generate_orders(no, oi)
    /\ drivers = generate_drivers(nd, di)
    /\ unassigned_orders = {OrderSeq[i] : i \in 1..no}
    /\ assigned_orders = {}
    /\ available_drivers = {DriverSeq[i] : i \in 1..nd}
    /\ event_queue = SortByTimestamp(schedule_initial_events(drivers, nd)
                                       \o NumberedFrom(cancels, nd + NumTicks))
    /\ current_time = SIMULATION_START_TIME
    /\ tick_number = 0
    /\ completed_deliveries = 0
    /\ metrics = InitMetrics
    /\ log = <<>>
    /\ last_accepts = <<>>
    /\ last_calls = <<>>
    /\ raised = FALSE
    /\ reachable = {}
    /\ fleets = [i \in 1..NumFleets |-> NewFleet]
    /\ pricing = NoCall
    /\ config = cfg

InitWith(no, nd, oi, di, cancels) ==
    InitWithConfig(no, nd, oi, di, cancels, ConfigOf(no, nd, di))

(* the state after construction *)
Init ==
    \E no \in 1..NumOrders, nd \in 0..NumDrivers :
      \E oi \in [1..no -> 1..Len(OrderProfileSeq)],
         di \in [1..nd -> 1..Len(DriverProfileSeq)] :
        InitWith(no, nd, oi, di, <<>>)

(* the state after construction with one order and one driver *)
InitSingle ==
    \E oi \in [1..1 -> 1..Len(OrderProfileSeq)],
       di \in [1..1 -> 1..Len(DriverProfileSeq)] :
        InitWith(1, 1, oi, di, <<>>)

(* the state after construction and after a caller scheduled cancellations *)
InitCancel ==
    \E no \in 1..NumOrders, nd \in 0..NumDrivers :
      \E oi \in [1..no -> 1..Len(OrderProfileSeq)],
         di \in [1..nd -> 1..Len(DriverProfileSeq)] :
        \E n \in 0..MaxCancellations :
          \E cs \in [1..n -> CancelChoices({OrderSeq[i] : i \in 1..no},
                                           {DriverSeq[i] : i \in 1..nd})] :
            InitWith(no, nd, oi, di, cs)

(* arrivals of a new driver that a caller can schedule before the run *)
LateArrivalTimes == {660, 700}

(* the state after construction without drivers and after a caller         *)
(* scheduled the arrival of a driver late in the day                       *)
InitLate ==
    \E no \in 1..NumOrders :
      \E oi \in [1..no -> 1..Len(OrderProfileSeq)], t \in LateArrivalTimes :
        InitWith(no, 0, oi, <<>>, <<DriverArrivalEvent(t, DriverSeq[1])>>)

(* ---------------- the event loop (run_simulation) ---------------- *)

(* event = event_queue.pop(0); current_time = event.timestamp; _log_event *)
Pop(kind) ==
    /\ ~raised
    /\ event_queue # <<>>
    /\ Head(event_queue).kind = kind
    /\ current_time' = Head(event_queue).timestamp
    /\ log' = Append(log, [timestamp |-> Head(event_queue).timestamp,
                           event_type |-> kind,
                           order_id |-> Head(event_queue).order_id,
                           seq |-> Head(event_queue).seq])

(* DriverArrival.apply *)
DriverArrival ==
    /\ Pop("DRIVER_ARRIVAL")
    /\ LET e == Head(event_queue)
       IN  /\ drivers' = [did \in DOMAIN drivers \cup {e.driver_id} |->
                              IF did = e.driver_id
                              THEN DefaultDriver(e.timestamp)
                              ELSE drivers[did]]
           /\ available_drivers' = available_drivers \cup {e.driver_id}
    /\ event_queue' = Tail(event_queue)
    /\ last_accepts' = <<>>
    /\ last_calls' = <<>>
    /\ UNCHANGED <<orders, unassigned_orders, assigned_orders, tick_number,
                   completed_deliveries, metrics, raised, reachable, fleets, pricing, config>>

(* Tick.apply, then the KPI update of run_simulation.  The calls           *)
(* dispatch_dedicated_fleet, update_kpis and log_tick of Tick.apply reach  *)
(* the methods of SimulationState, whose bodies are "pass": they change    *)
(* nothing, and fleets stays as it is.                                     *)
Tick ==
    /\ Pop("TICK")
    /\ LET now == Head(event_queue).timestamp
           st1 == ExpireOrders(StateRec, now)
       IN  \E st2 \in MatchingOutcomes(st1, now) :
             \E st3 \in MatchingOutcomes(st2, now) :
               /\ orders' = st3.orders
               /\ drivers' = st3.drivers
               /\ unassigned_orders' = st3.unassigned_orders
               /\ assigned_orders' = st3.assigned_orders
               /\ available_drivers' = st3.available_drivers
               /\ event_queue' = st3.event_queue
               /\ last_accepts' = st3.accepts
               /\ last_calls' = st3.calls
               /\ metrics' = update_metrics(metrics, st3.orders,
                                             DictOrder(st3.orders),
                                             st3.drivers, fleets)
    /\ tick_number' = tick_number + 1
    /\ reachable' = reachable \cup
            {oid \in DOMAIN orders : \E did \in DOMAIN drivers :
                PickupArrival(orders[oid], drivers[did], Head(event_queue).timestamp)
                    <= orders[oid].latest_departure}
    /\ UNCHANGED <<completed_deliveries, raised, fleets, pricing, config>>

(* OrderPickup.apply *)
OrderPickup ==
    /\ Pop("ORDER_PICKUP")
    /\ LET e == Head(event_queue)
       IN  /\ orders' = [orders EXCEPT ![e.order_id].pickup_time = e.timestamp]
           /\ drivers' = [drivers EXCEPT ![e.driver_id].loc = orders[e.order_id].pickup]
    /\ event_queue' = Tail(event_queue)
    /\ last_accepts' = <<>>
    /\ last_calls' = <<>>
    /\ UNCHANGED <<unassigned_orders, assigned_orders, available_drivers,
                   tick_number, completed_deliveries, metrics, raised, reachable,
                   fleets, pricing, config>>

(* DeliveryComplete.apply *)
DeliveryComplete ==
    /\ Pop("DELIVERY_COMPLETE")
    /\ LET e == Head(event_queue)
           earnings == calculate_driver_wage(e.actual_distance_km,
                           e.actual_time_minutes, drivers[e.driver_id].rating)
           d2 == complete_order(drivers[e.driver_id], e.order_id, earnings)
       IN  /\ orders' = [orders EXCEPT ![e.order_id] = deliver(@, e.timestamp)]
           /\ drivers' = [drivers EXCEPT ![e.driver_id] = d2]
           /\ available_drivers' =
                 IF d2.current_orders = <<>>
                 THEN available_drivers \cup {e.driver_id}
                 ELSE available_drivers
           /\ assigned_orders' = assigned_orders \ {e.order_id}
    /\ completed_deliveries' = completed_deliveries + 1
    /\ event_queue' = Tail(event_queue)
    /\ last_accepts' = <<>>
    /\ last_calls' = <<>>
    /\ UNCHANGED <<unassigned_orders, tick_number, metrics, raised, reachable,
                   fleets, pricing, config>>

(* the loop over driver.current_orders in Cancellation.apply: each order   *)
(* goes back to unassigned_orders; assigned_orders.remove raises KeyError  *)
(* for an order that is not in assigned_orders, which ends the loop        *)
RECURSIVE ReleaseOrders(_, _)
ReleaseOrders(st, os) ==
    IF os = <<>> THEN st
    ELSE LET st2 == [st EXCEPT !.unassigned_orders = @ \cup {Head(os)}]
         IN  IF Head(os) \in st2.assigned_orders
             THEN ReleaseOrders([st2 EXCEPT !.assigned_orders = @ \ {Head(os)}],
                                Tail(os))
             ELSE [st2 EXCEPT !.raised = TRUE]

(* Cancellation.apply *)
Cancellation ==
    /\ Pop("CANCELLATION")
    /\ LET e == Head(event_queue)
       IN  IF e.entity_type = "order"
           THEN /\ orders' = [orders EXCEPT ![e.order_id] = cancel(@)]
                /\ unassigned_orders' = unassigned_orders \ {e.order_id}
                /\ assigned_orders' = assigned_orders \ {e.order_id}
                /\ UNCHANGED <<available_drivers, raised>>
           ELSE LET st == ReleaseOrders(
                            [unassigned_orders |-> unassigned_orders,
                             assigned_orders |-> assigned_orders,
                             raised |-> FALSE],
                            drivers[e.driver_id].current_orders)
                IN  /\ available_drivers' = available_drivers \ {e.driver_id}
                    /\ unassigned_orders' = st.unassigned_orders
                    /\ assigned_orders' = st.assigned_orders
                    /\ raised' = st.raised
                    /\ UNCHANGED orders
    /\ event_queue' = Tail(event_queue)
    /\ last_accepts' = <<>>
    /\ last_calls' = <<>>
    /\ UNCHANGED <<drivers, tick_number, completed_deliveries, metrics, reachable,
                   fleets, pricing, config>>

(* the loop over list(unassigned_orders) of                                *)
(* CargoHitchhikingSimulation.dispatch_dedicated_fleet: an order within    *)
(* FleetDispatchThreshold minutes of its latest_departure goes to the      *)
(* first vehicle of fleets that is available and can carry it;             *)
(* _schedule_fleet_return computes a return time and schedules nothing     *)
RECURSIVE DispatchLoop(_, _, _)
DispatchLoop(st, ords, now) ==
    IF ords = <<>> THEN st
    ELSE LET oid == Head(ords)
             o == st.orders[oid]
             free == FleetsFor(st.fleets, o)
         IN  IF o.latest_departure - now <= FleetDispatchThreshold /\ free # {}
             THEN LET i == CHOOSE k \in free : \A j \in free : k <= j
                  IN  DispatchLoop(
                        [st EXCEPT
                           !.fleets[i] = dispatch(@),
                           !.orders[oid] = accept(@, "fleet_" \o FleetSeq[i], now),
                           !.unassigned_orders = @ \ {oid},
                           !.assigned_orders = @ \cup {oid}],
                        Tail(ords), now)
             ELSE DispatchLoop(st, Tail(ords), now)

(* CargoHitchhikingSimulation.dispatch_dedicated_fleet, called by a user   *)
(* of the simulation object between two events; no code of the engine      *)
(* calls it                                                                *)
DispatchDedicatedFleet ==
    /\ ~raised
    /\ \E ords \in Orderings(unassigned_orders) :
          LET st == DispatchLoop([orders |-> orders, fleets |-> fleets,
                                  unassigned_orders |-> unassigned_orders,
                                  assigned_orders |-> assigned_orders],
                                 ords, current_time)
          IN  /\ st.fleets # fleets
              /\ orders' = st.orders
              /\ fleets' = st.fleets
              /\ unassigned_orders' = st.unassigned_orders
              /\ assigned_orders' = st.assigned_orders
    /\ last_accepts' = <<>>
    /\ last_calls' = <<>>
    /\ UNCHANGED <<drivers, available_drivers, event_queue, current_time,
                   tick_number, completed_deliveries, metrics, log, raised,
                   reachable, pricing, config>>

Next ==
    \/ DriverArrival
    \/ Tick
    \/ OrderPickup
    \/ DeliveryComplete

NextCancel ==
    \/ Next
    \/ Cancellation

NextFleet ==
    \/ Next
    \/ DispatchDedicatedFleet

Spec == Init /\ [][Next]_vars

SpecCancel == InitCancel /\ [][NextCancel]_vars

(* a run with one order and one driver; the event loop runs until the      *)
(* queue is empty                                                          *)
SpecSingle == InitSingle /\ [][Next]_vars /\ WF_vars(Next)

(* the state after construction with one order and at most one driver *)
InitFleet ==
    \E nd \in 0..1 :
      \E oi \in [1..1 -> 1..Len(OrderProfileSeq)],
         di \in [1..nd -> 1..Len(DriverProfileSeq)] :
        InitWith(1, nd, oi, di, <<>>)

(* a run during which dispatch_dedicated_fleet can be called; the event    *)
(* loop runs until the queue is empty                                      *)
SpecFleet == InitFleet /\ [][NextFleet]_vars /\ WF_vars(Next)

(* a run whose only driver arrives late; the event loop runs until the     *)
(* queue is empty                                                          *)
SpecLate == InitLate /\ [][Next]_vars /\ WF_vars(Next)

(* ---------------- the KPI aggregator called by a user of the engine ---------------- *)

NumKpiOrders == 2

(* the state after construction with at most NumKpiOrders orders and one   *)
(* Metro driver                                                            *)
InitKpi ==
    \E no \in 1..NumKpiOrders :
      \E oi \in [1..no -> 1..Len(OrderProfileSeq)],
         di \in [1..1 -> 1..1] :
        InitWith(no, 1, oi, di, <<>>)

(* order.accept(driver_id, current_time) *)
OrderAccept ==
    \E oid \in DOMAIN orders, did \in DOMAIN drivers :
        /\ orders' = [orders EXCEPT ![oid] = accept(@, did, current_time)]
        /\ UNCHANGED <<drivers, unassigned_orders, assigned_orders,
                       available_drivers, event_queue, current_time, tick_number,
                       completed_deliveries, metrics, log, last_accepts,
                       last_calls, raised, reachable, fleets, pricing, config>>

(* order.deliver(current_time) *)
OrderDeliver ==
    \E oid \in DOMAIN orders :
        /\ orders' = [orders EXCEPT ![oid] = deliver(@, current_time)]
        /\ UNCHANGED <<drivers, unassigned_orders, assigned_orders,
                       available_drivers, event_queue, current_time, tick_number,
                       completed_deliveries, metrics, log, last_accepts,
                       last_calls, raised, reachable, fleets, pricing, config>>

(* order.cancel() *)
OrderCancel ==
    \E oid \in DOMAIN orders :
        /\ orders' = [orders EXCEPT ![oid] = cancel(@)]
        /\ UNCHANGED <<drivers, unassigned_orders, assigned_orders,
                       available_drivers, event_queue, current_time, tick_number,
                       completed_deliveries, metrics, log, last_accepts,
                       last_calls, raised, reachable, fleets, pricing, config>>

(* order.expire() *)
OrderExpire ==
    \E oid \in DOMAIN orders :
        /\ orders' = [orders EXCEPT ![oid] = expire(@)]
        /\ UNCHANGED <<drivers, unassigned_orders, assigned_orders,
                       available_drivers, event_queue, current_time, tick_number,
                       completed_deliveries, metrics, log, last_accepts,
                       last_calls, raised, reachable, fleets, pricing, config>>

(* fleet.dispatch() *)
FleetDispatch ==
    \E i \in 1..NumFleets :
        /\ fleets[i].is_available
        /\ fleets' = [fleets EXCEPT ![i] = dispatch(@)]
        /\ UNCHANGED <<orders, drivers, unassigned_orders, assigned_orders,
                       available_drivers, event_queue, current_time, tick_number,
                       completed_deliveries, metrics, log, last_accepts,
                       last_calls, raised, reachable, pricing, config>>

(* kpi_tracker.update_metrics(orders, drivers, fleets), the orders being   *)
(* iterated in any order                                                   *)
UpdateMetrics ==
    \E oids \in Orderings(DOMAIN orders) :
        /\ metrics' = update_metrics(metrics, orders, oids, drivers, fleets)
        /\ UNCHANGED <<orders, drivers, unassigned_orders, assigned_orders,
                       available_drivers, event_queue, current_time, tick_number,
                       completed_deliveries, log, last_accepts, last_calls,
                       raised, reachable, fleets, pricing, config>>

NextKpi ==
    \/ OrderAccept
    \/ OrderDeliver
    \/ OrderCancel
    \/ OrderExpire
    \/ FleetDispatch
    \/ UpdateMetrics

SpecKpi == InitKpi /\ [][NextKpi]_vars

(* ---------------- the pricing functions called by a user of the engine ---------------- *)

(* times of the day, in minutes after 08:00, at which a price is asked:    *)
(* the first and the last minute of the time slots and a time of the night *)
PricingTimes == {0, 119, 120, 479, 480, 719, 720, 1000, 1439}

(* distances handed to calculate_order_price: none, or 5 km *)
PricingDistances == {NoDistance, 5}

(* wages handed to calculate_platform_profit *)
Wages == {0, 10000, 250000}

(* the state after construction with one order and one Metro driver *)
InitPricing ==
    \E oi \in [1..1 -> 1..Len(OrderProfileSeq)],
       di \in [1..1 -> 1..1] :
        InitWith(1, 1, oi, di, <<>>)

(* the state after construction with one order and one driver *)
InitProfit ==
    \E oi \in [1..1 -> 1..Len(OrderProfileSeq)],
       di \in [1..1 -> 1..Len(DriverProfileSeq)] :
        InitWith(1, 1, oi, di, <<>>)

(* calculate_order_price(order, current_time, model, distance) in both     *)
(* pricing models, for an order of any size class and service level        *)
PriceOrder ==
    \E oid \in DOMAIN orders, size \in SizeClasses, level \in ServiceLevels,
       t \in PricingTimes, dist \in PricingDistances :
        LET o == [orders[oid] EXCEPT !.parcel_size_class = size,
                                     !.service_level = level]
        IN  /\ pricing' = [kind |-> "price", order |-> o, time |-> t,
                           base_distance_km |-> dist,
                           fixed |-> calculate_order_price(o, t, "fixed", dist),
                           dynamic |-> calculate_order_price(o, t, "dynamic", dist)]
            /\ UNCHANGED <<orders, drivers, unassigned_orders, assigned_orders,
                           available_drivers, event_queue, current_time,
                           tick_number, completed_deliveries, metrics, log,
                           last_accepts, last_calls, raised, reachable, fleets,
                           config>>

(* _calculate_match_profit(order, driver), and calculate_platform_profit   *)
(* for the same price and another wage                                     *)
MatchProfit ==
    \E oid \in DOMAIN orders, did \in DOMAIN drivers, w \in Wages :
        LET r == calculate_match_profit(orders[oid], drivers[did])
        IN  /\ pricing' = [kind |-> "profit", order_id |-> oid, driver_id |-> did,
                           price |-> orders[oid].base_price,
                           wage |-> r.driver_wage,
                           profit |-> r.platform_profit,
                           other_wage |-> w,
                           other_profit |->
                               calculate_platform_profit(orders[oid].base_price, w)]
            /\ UNCHANGED <<orders, drivers, unassigned_orders, assigned_orders,
                           available_drivers, event_queue, current_time,
                           tick_number, completed_deliveries, metrics, log,
                           last_accepts, last_calls, raised, reachable, fleets,
                           config>>

NextPricing == PriceOrder

SpecPricing == InitPricing /\ [][NextPricing]_vars

NextProfit ==
    \/ MatchProfit
    \/ OrderDeliver
    \/ UpdateMetrics

SpecProfit == InitProfit /\ [][NextProfit]_vars

(* ---------------- the feasibility filter called by a user of the engine ---------------- *)

(* times of the day, in minutes after 08:00, at which a pair is checked *)
FilterTimes == {0, 15, 60, 165, 180, 195, 600, 705, 720}

(* is_feasible_match(order, driver, current_time) and                      *)
(* check_pickup_reachability(order, driver, current_time) for an order and *)
(* a driver of the state                                                   *)
FeasibleCall ==
    \E oid \in DOMAIN orders, did \in DOMAIN drivers, t \in FilterTimes :
        /\ pricing' = [kind |-> "feasible", order_id |-> oid, driver_id |-> did,
                       time |-> t,
                       capacity |-> can_accept_order(drivers[did], orders[oid]),
                       result |-> is_feasible_match(orders[oid], drivers[did], t),
                       reachability |->
                           check_pickup_reachability(orders[oid], drivers[did], t)]
        /\ UNCHANGED <<orders, drivers, unassigned_orders, assigned_orders,
                       available_drivers, event_queue, current_time,
                       tick_number, completed_deliveries, metrics, log,
                       last_accepts, last_calls, raised, reachable, fleets,
                       config>>

NextFilter == FeasibleCall

SpecFilter == InitProfit /\ [][NextFilter]_vars

TypeOK ==
    /\ unassigned_orders \subseteq DOMAIN orders
    /\ assigned_orders \subseteq DOMAIN orders
    /\ available_drivers \subseteq DOMAIN drivers
    /\ DOMAIN orders \subseteq OrderIds
    /\ DOMAIN drivers \subseteq DriverIds
    /\ \A oid \in DOMAIN orders :
         orders[oid].status \in {"PUBLISHED", "ACCEPTED", "DELIVERED",
                                 "EXPIRED", "CANCELLED"}

(* ---------------- properties ---------------- *)

Terminal == {"DELIVERED", "EXPIRED", "CANCELLED"}

Popped(kind) == \E i \in 1..Len(log) : log[i].event_type = kind

(* C1: in every state reachable by any sequence of events, cancellations   *)
(* included, every driver holds at most max_orders orders.                 *)
CapacityInvariant ==
    \A did \in DOMAIN drivers :
        Len(drivers[did].current_orders) <= drivers[did].max_orders

(* a driver holds max_orders orders after a cancellation, while an order   *)
(* that it could carry is still waiting                                    *)
FullDriverWhileOrderWaits ==
    /\ Popped("CANCELLATION")
    /\ \E did \in DOMAIN drivers, oid \in unassigned_orders :
          /\ drivers[did].max_orders > 0
          /\ Len(drivers[did].current_orders) = drivers[did].max_orders
          /\ orders[oid].status = "PUBLISHED"
          /\ orders[oid].parcel_volume_l <= drivers[did].capacity_volume_l

(* C2: the timestamps of the popped events never decrease, and every event *)
(* that is queued, the pickups and deliveries scheduled by a match         *)
(* included, is due at or after the current clock.                         *)
MonotonicTime ==
    /\ \A i \in 1..(Len(log) - 1) : log[i].timestamp <= log[i + 1].timestamp
    /\ \A i \in 1..Len(event_queue) : event_queue[i].timestamp >= current_time

(* a delivery scheduled by a match was popped between two ticks *)
DeliveryPoppedBetweenTicks ==
    \E i, j, k \in 1..Len(log) :
        /\ i < j /\ j < k
        /\ log[i].event_type = "TICK"
        /\ log[j].event_type = "DELIVERY_COMPLETE"
        /\ log[k].event_type = "TICK"
        /\ log[i].timestamp < log[j].timestamp

(* C3: an order that is DELIVERED, EXPIRED or CANCELLED keeps its status   *)
(* in every step, and an order becomes CANCELLED only from PUBLISHED or    *)
(* ACCEPTED.                                                               *)
StatusMonotonic ==
    [][\A oid \in DOMAIN orders :
          /\ orders[oid].status \in Terminal
                => orders'[oid].status = orders[oid].status
          /\ (orders'[oid].status = "CANCELLED" /\ orders[oid].status # "CANCELLED")
                => orders[oid].status \in {"PUBLISHED", "ACCEPTED"}]_vars

(* C4 as stated: after the first tick the orders that are ACCEPTED or      *)
(* DELIVERED, EXPIRED, or CANCELLED are all the orders.                    *)
StatusConservation ==
    tick_number >= 1 =>
        CountStatus(orders, {"ACCEPTED", "DELIVERED"})
          + CountStatus(orders, {"EXPIRED"})
          + CountStatus(orders, {"CANCELLED"}) = Cardinality(DOMAIN orders)

(* C4: after the first tick the counters of the KPI tracker add up:        *)
(* matched_orders + expired_orders + cancelled_orders = total_orders, the  *)
(* number of orders.                                                       *)
KpiConservation ==
    tick_number >= 1 =>
        /\ metrics.matched_orders + metrics.expired_orders
             + metrics.cancelled_orders = metrics.total_orders
        /\ metrics.total_orders = Cardinality(DOMAIN orders)

(* after a tick an order is still PUBLISHED and the tracker counts it as   *)
(* expired                                                                 *)
PublishedCountedAsExpired ==
    /\ tick_number >= 1
    /\ \E oid \in DOMAIN orders : orders[oid].status = "PUBLISHED"
    /\ metrics.expired_orders > CountStatus(orders, {"EXPIRED"})

(* C5: every pair accepted at a tick passes is_feasible_match, evaluated   *)
(* with the same order, driver and time.                                   *)
AcceptedPairsFeasible ==
    \A i \in 1..Len(last_accepts) : last_accepts[i].feasible = "True"

(* C6: in the list one call of greedy_matching returns, no order appears   *)
(* twice and no driver appears more often than it has free slots.          *)
AssignmentsRespectSlots ==
    \A c \in 1..Len(last_calls) :
        LET a == last_calls[c].assignments
        IN  /\ \A i, j \in 1..Len(a) : i # j => a[i][1] # a[j][1]
            /\ \A did \in DOMAIN last_calls[c].held :
                  Cardinality({i \in 1..Len(a) : a[i][2] = did})
                     <= last_calls[c].max_orders[did] - last_calls[c].held[did]

(* C7: when the event queue is empty every order is DELIVERED, EXPIRED or  *)
(* CANCELLED.                                                              *)
TerminalAtEnd ==
    event_queue = <<>> =>
        \A oid \in DOMAIN orders : orders[oid].status \in Terminal

(* C8: an ACCEPTED order has a driver and an accepted_at, and an order     *)
(* with a delivered_at was accepted no later than it was delivered.        *)
AcceptedOrderFields ==
    \A oid \in DOMAIN orders :
        /\ orders[oid].status = "ACCEPTED"
              => /\ orders[oid].assigned_driver_id # NoId
                 /\ orders[oid].accepted_at # NoTime
        /\ orders[oid].delivered_at # NoTime
              => /\ orders[oid].accepted_at # NoTime
                 /\ orders[oid].accepted_at <= orders[oid].delivered_at

(* one order and one driver that can carry it and stands at its pickup,    *)
(* before the first event                                                  *)
SingleOrderAtPickup ==
    /\ log = <<>>
    /\ Cardinality(DOMAIN orders) = 1
    /\ Cardinality(DOMAIN drivers) = 1
    /\ \A oid \in DOMAIN orders, did \in DOMAIN drivers :
          /\ orders[oid].parcel_volume_l <= drivers[did].capacity_volume_l
          /\ orders[oid].parcel_weight_kg <= drivers[did].max_weight_kg
          /\ Len(drivers[did].current_orders) < drivers[did].max_orders
          /\ drivers[did].loc = orders[oid].pickup
          /\ orders[oid].latest_departure
                > SIMULATION_START_TIME + TICK_INTERVAL_MINUTES

SingleOrderDelivered ==
    /\ Cardinality(DOMAIN orders) = 1
    /\ Cardinality(DOMAIN drivers) = 1
    /\ \A oid \in DOMAIN orders :
          /\ orders[oid].status = "DELIVERED"
          /\ orders[oid].assigned_driver_id \in DOMAIN drivers

(* C9: with one order and one driver that can carry it and stands at its   *)
(* pickup, and a latest departure well after the start, the order is       *)
(* eventually DELIVERED by that driver.                                    *)
EventuallyDelivered == SingleOrderAtPickup ~> SingleOrderDelivered

(* the single order was delivered by the single driver, which stood at the *)
(* pickup                                                                  *)
DeliveredByDriverAtPickup ==
    /\ SingleOrderDelivered
    /\ \A oid \in DOMAIN orders, did \in DOMAIN drivers :
          /\ drivers[did].loc = orders[oid].pickup
          /\ orders[oid].pickup_time # NoTime
          /\ drivers[did].total_earnings > 0

(* C10: an order that no driver could reach by its latest departure at any *)
(* tick was never accepted and is EXPIRED when the run ends.               *)
UnreachableOrdersExpire ==
    event_queue = <<>> =>
        \A oid \in DOMAIN orders \ reachable :
            /\ orders[oid].accepted_at = NoTime
            /\ orders[oid].status = "EXPIRED"

(* the next event is a TICK that the loop will process *)
TickIsNext ==
    /\ ~raised
    /\ event_queue # <<>>
    /\ Head(event_queue).kind = "TICK"

(* the orders the tick about to run offers to driver did: the unassigned   *)
(* PUBLISHED orders that do not expire at this tick and whose parcel the   *)
(* driver can carry                                                        *)
OfferedTo(did) ==
    {oid \in unassigned_orders :
        /\ orders[oid].status = "PUBLISHED"
        /\ Head(event_queue).timestamp <= orders[oid].latest_departure
        /\ orders[oid].parcel_volume_l <= drivers[did].capacity_volume_l
        /\ orders[oid].parcel_weight_kg <= drivers[did].max_weight_kg}

(* a driver of the pool with one order slot, which is free *)
FreeSingleSlot(did) ==
    /\ did \in available_drivers
    /\ drivers[did].max_orders = 1
    /\ drivers[did].current_orders = <<>>

Oversize(oid) ==
    /\ DOMAIN drivers # {}
    /\ \A did \in DOMAIN drivers :
          orders[oid].parcel_volume_l > drivers[did].capacity_volume_l

(* C12: an order whose volume exceeds the volume capacity of every driver  *)
(* is never ACCEPTED, and it is EXPIRED when the run has ended.            *)
OversizeOrdersExpire ==
    \A oid \in DOMAIN orders :
        Oversize(oid) =>
            /\ orders[oid].status # "ACCEPTED"
            /\ orders[oid].accepted_at = NoTime
            /\ event_queue = <<>> => orders[oid].status = "EXPIRED"

(* the next event is a DELIVERY_COMPLETE that the loop will process *)
DeliveryIsNext ==
    /\ ~raised
    /\ event_queue # <<>>
    /\ Head(event_queue).kind = "DELIVERY_COMPLETE"

(* C13: a tick leaves no driver that holds max_orders orders in the pool   *)
(* of assignable drivers, and after a DELIVERY_COMPLETE that leaves its    *)
(* driver with fewer than max_orders orders the driver is in               *)
(* available_drivers.                                                      *)
DriverBackAfterDelivery ==
    [][/\ TickIsNext =>
            \A did \in DOMAIN drivers :
                Len(drivers'[did].current_orders) >= drivers'[did].max_orders
                    => did \notin available_drivers'
       /\ DeliveryIsNext =>
            LET did == Head(event_queue).driver_id
            IN  Len(drivers'[did].current_orders) < drivers'[did].max_orders
                    => did \in available_drivers']_vars

RECURSIVE SumVolume(_, _)
SumVolume(os, O) ==
    IF os = <<>> THEN 0
    ELSE O[Head(os)].parcel_volume_l + SumVolume(Tail(os), O)

RECURSIVE SumWeight(_, _)
SumWeight(os, O) ==
    IF os = <<>> THEN 0
    ELSE O[Head(os)].parcel_weight_kg + SumWeight(Tail(os), O)

(* C14: the parcels of a driver's current orders fit the driver together:  *)
(* their total volume is at most capacity_volume_l and their total weight  *)
(* is at most max_weight_kg.                                               *)
LoadWithinCapacity ==
    \A did \in DOMAIN drivers :
        /\ SumVolume(drivers[did].current_orders, orders)
              <= drivers[did].capacity_volume_l
        /\ SumWeight(drivers[did].current_orders, orders)
              <= drivers[did].max_weight_kg

(* the next event is a DRIVER_ARRIVAL that the loop will process *)
ArrivalIsNext ==
    /\ ~raised
    /\ event_queue # <<>>
    /\ Head(event_queue).kind = "DRIVER_ARRIVAL"

(* C15: no step creates or destroys a driver, and processing the           *)
(* DRIVER_ARRIVAL of a driver leaves its max_orders, driver type,          *)
(* capacity, location, current orders and cumulative earnings unchanged.   *)
DriversFixedAtSetup ==
    [][/\ DOMAIN drivers' = DOMAIN drivers
       /\ ArrivalIsNext =>
            LET did == Head(event_queue).driver_id
            IN  /\ drivers'[did].max_orders = drivers[did].max_orders
                /\ drivers'[did].driver_type = drivers[did].driver_type
                /\ drivers'[did].capacity_volume_l = drivers[did].capacity_volume_l
                /\ drivers'[did].max_weight_kg = drivers[did].max_weight_kg
                /\ drivers'[did].loc = drivers[did].loc
                /\ drivers'[did].current_orders = drivers[did].current_orders
                /\ drivers'[did].total_earnings = drivers[did].total_earnings]_vars

(* the number of events of one kind for one order in a queue *)
CountEvents(q, kind, oid) ==
    Cardinality({i \in 1..Len(q) : q[i].kind = kind /\ q[i].order_id = oid})

(* the acceptances of the tick just processed that name the driver *)
AcceptsOf(acc, did) == {i \in 1..Len(acc) : acc[i].driver_id = did}

(* C16: the acceptances of a tick change exactly this: each accepted order *)
(* goes from PUBLISHED to ACCEPTED with the driver's id and the tick time, *)
(* and from the unassigned to the assigned set; the queue gains one        *)
(* ORDER_PICKUP and one DELIVERY_COMPLETE for it; a driver's list of       *)
(* current orders grows by one entry per acceptance, in the order of the   *)
(* acceptances, and nothing else of the driver changes; the orders that    *)
(* were not accepted change only by expiring.                              *)
AcceptanceEffect ==
    [][TickIsNext =>
         LET now == Head(event_queue).timestamp
             acc == last_accepts'
             accepted == {acc[i].order_id : i \in 1..Len(acc)}
         IN  /\ \A i, j \in 1..Len(acc) :
                   i # j => acc[i].order_id # acc[j].order_id
             /\ \A i \in 1..Len(acc) :
                   LET oid == acc[i].order_id
                       did == acc[i].driver_id
                   IN  /\ orders[oid].status = "PUBLISHED"
                       /\ orders'[oid] = [orders[oid] EXCEPT
                                             !.status = "ACCEPTED",
                                             !.assigned_driver_id = did,
                                             !.accepted_at = now]
                       /\ oid \in unassigned_orders
                       /\ oid \notin assigned_orders
                       /\ oid \notin unassigned_orders'
                       /\ oid \in assigned_orders'
                       /\ CountEvents(event_queue', "ORDER_PICKUP", oid)
                            = CountEvents(event_queue, "ORDER_PICKUP", oid) + 1
                       /\ CountEvents(event_queue', "DELIVERY_COMPLETE", oid)
                            = CountEvents(event_queue, "DELIVERY_COMPLETE", oid) + 1
             /\ Len(event_queue') = Len(event_queue) - 1 + 2 * Len(acc)
             /\ \A did \in DOMAIN drivers :
                   /\ Len(drivers'[did].current_orders)
                        = Len(drivers[did].current_orders)
                            + Cardinality(AcceptsOf(acc, did))
                   /\ [drivers'[did] EXCEPT !.current_orders = <<>>]
                        = [drivers[did] EXCEPT !.current_orders = <<>>]
                   /\ SubSeq(drivers'[did].current_orders, 1,
                             Len(drivers[did].current_orders))
                        = drivers[did].current_orders
                   /\ \A k \in (Len(drivers[did].current_orders) + 1)
                                 ..Len(drivers'[did].current_orders) :
                         \E i \in AcceptsOf(acc, did) :
                            acc[i].order_id = drivers'[did].current_orders[k]
             /\ \A oid \in DOMAIN orders \ accepted :
                   \/ orders'[oid] = orders[oid]
                   \/ /\ oid \in unassigned_orders
                      /\ is_expired(orders[oid], now)
                      /\ orders'[oid] = expire(orders[oid])
             /\ assigned_orders' = assigned_orders \cup accepted]_vars

(* C17: after a tick, the ORDER_PICKUP and the DELIVERY_COMPLETE queued    *)
(* for an order the tick accepted are due at most MaxDeliveryTime minutes  *)
(* after the acceptance, and not after SIMULATION_END_TIME, except a       *)
(* DELIVERY_COMPLETE due LateDeliveryDelay minutes after the acceptance.   *)
FollowUpEventsClipped ==
    \A i \in 1..Len(last_accepts) :
        \A k \in 1..Len(event_queue) :
            LET e == event_queue[k]
                at == last_accepts[i].time
            IN  (e.order_id = last_accepts[i].order_id
                   /\ e.kind \in {"ORDER_PICKUP", "DELIVERY_COMPLETE"}) =>
                    /\ e.timestamp <= at + MaxDeliveryTime
                    /\ \/ e.timestamp <= SIMULATION_END_TIME
                       \/ /\ e.kind = "DELIVERY_COMPLETE"
                          /\ e.timestamp = at + LateDeliveryDelay

(* the DELIVERY_COMPLETE events queued for the orders the last tick        *)
(* accepted: each accepted order has one, due not after the simulation end *)
(* or LateDeliveryDelay minutes after the acceptance                       *)
AcceptedHaveDelivery ==
    \A i \in 1..Len(last_accepts) :
        /\ CountEvents(event_queue, "DELIVERY_COMPLETE", last_accepts[i].order_id) = 1
        /\ \A k \in 1..Len(event_queue) :
              (event_queue[k].kind = "DELIVERY_COMPLETE"
                 /\ event_queue[k].order_id = last_accepts[i].order_id) =>
                  IF last_accepts[i].time + MaxDeliveryTime > SIMULATION_END_TIME
                  THEN event_queue[k].timestamp
                          = last_accepts[i].time + LateDeliveryDelay
                  ELSE event_queue[k].timestamp <= SIMULATION_END_TIME

NoneAcceptedAtEnd ==
    event_queue = <<>> =>
        \A oid \in DOMAIN orders : orders[oid].status # "ACCEPTED"

(* C18: an acceptance whose delivery is projected after the simulation end *)
(* gets a DELIVERY_COMPLETE LateDeliveryDelay minutes after the acceptance;*)
(* every ACCEPTED order is eventually DELIVERED by the processing of its   *)
(* DELIVERY_COMPLETE, and no order is ACCEPTED when the queue is empty.    *)
LateDeliveriesProcessed ==
    /\ [](AcceptedHaveDelivery /\ NoneAcceptedAtEnd)
    /\ \A oid \in OrderIds :
          (oid \in DOMAIN orders /\ orders[oid].status = "ACCEPTED")
             ~> (oid \in DOMAIN orders /\ orders[oid].status = "DELIVERED"
                   /\ orders[oid].delivered_at # NoTime)

(* an order accepted less than MaxDeliveryTime minutes before the          *)
(* simulation end was delivered LateDeliveryDelay minutes later            *)
DeliveredAfterLateAcceptance ==
    \E oid \in DOMAIN orders :
        /\ orders[oid].status = "DELIVERED"
        /\ orders[oid].accepted_at + MaxDeliveryTime > SIMULATION_END_TIME
        /\ orders[oid].delivered_at = orders[oid].accepted_at + LateDeliveryDelay

(* the orders accepted by the step *)
AcceptedNow == {last_accepts'[i].order_id : i \in 1..Len(last_accepts')}

(* a tick leaves an unassigned PUBLISHED order that it neither expires nor *)
(* accepts as it is, in the unassigned pool, and hands every unassigned    *)
(* order that does not expire to the matcher when it calls it              *)
TickKeepsUnmatched ==
    TickIsNext =>
        \A oid \in unassigned_orders :
            Head(event_queue).timestamp <= orders[oid].latest_departure =>
                /\ (orders[oid].status = "PUBLISHED" /\ oid \notin AcceptedNow) =>
                      /\ orders'[oid] = orders[oid]
                      /\ oid \in unassigned_orders'
                /\ last_calls' # <<>> => oid \in last_calls'[1].offered

(* the order leaves the unassigned pool by expiring at a tick or by being  *)
(* accepted                                                                *)
LeavesByExpiryOrAcceptance(oid) ==
    \/ /\ TickIsNext
       /\ Head(event_queue).timestamp > orders[oid].latest_departure
       /\ orders'[oid].status = "EXPIRED"
    \/ /\ TickIsNext
       /\ oid \in AcceptedNow
       /\ orders'[oid].status = "ACCEPTED"

(* the order leaves the unassigned pool by its own cancellation *)
LeavesByCancellation(oid) ==
    /\ event_queue # <<>>
    /\ Head(event_queue).kind = "CANCELLATION"
    /\ Head(event_queue).entity_type = "order"
    /\ Head(event_queue).order_id = oid
    /\ orders'[oid].status = "CANCELLED"

(* C19 as stated: an order for which a tick proposes no driver stays       *)
(* PUBLISHED, unchanged, in the unassigned pool and is offered again, and  *)
(* an order leaves the unassigned pool only by expiring or by being        *)
(* accepted.                                                               *)
LeavesPoolOnlyMatchedOrExpired ==
    [][/\ TickKeepsUnmatched
       /\ \A oid \in unassigned_orders \ unassigned_orders' :
             LeavesByExpiryOrAcceptance(oid)]_vars

(* C19: an order for which a tick proposes no driver stays PUBLISHED,      *)
(* unchanged, in the unassigned pool and is offered again, and an order    *)
(* leaves the unassigned pool only by expiring, by being accepted or by    *)
(* the cancellation of the order.                                          *)
UnmatchedOrdersWait ==
    [][/\ TickKeepsUnmatched
       /\ \A oid \in unassigned_orders \ unassigned_orders' :
             \/ LeavesByExpiryOrAcceptance(oid)
             \/ LeavesByCancellation(oid)]_vars

(* after two ticks, with a driver in the pool, an order is still PUBLISHED *)
(* in the unassigned pool, untouched, while a cancelled order has left the *)
(* pool                                                                    *)
WaitingWhileOtherCancelled ==
    /\ tick_number >= 2
    /\ available_drivers # {}
    /\ \E oid \in unassigned_orders :
          /\ orders[oid] = [orders[oid] EXCEPT !.status = "PUBLISHED",
                                !.assigned_driver_id = NoId,
                                !.accepted_at = NoTime,
                                !.pickup_time = NoTime,
                                !.delivered_at = NoTime]
    /\ \E oid \in DOMAIN orders \ (unassigned_orders \cup assigned_orders) :
          /\ orders[oid].status = "CANCELLED"
          /\ orders[oid].accepted_at = NoTime

(* a tick marks every unassigned order whose latest_departure is earlier   *)
(* than the tick time EXPIRED, takes it out of the unassigned pool and     *)
(* neither hands it to the matcher nor accepts it                          *)
TickExpiresFirst ==
    TickIsNext =>
        \A oid \in unassigned_orders :
            orders[oid].latest_departure < Head(event_queue).timestamp =>
                /\ orders'[oid].status = "EXPIRED"
                /\ oid \notin unassigned_orders'
                /\ oid \notin AcceptedNow
                /\ \A c \in 1..Len(last_calls') : oid \notin last_calls'[c].offered

NoAcceptanceAfterDeparture ==
    \A oid \in DOMAIN orders :
        orders[oid].accepted_at # NoTime
            => orders[oid].accepted_at <= orders[oid].latest_departure

(* C20: at every TICK each unassigned order whose latest_departure is      *)
(* earlier than the tick time is marked EXPIRED and removed from the       *)
(* unassigned pool before the matcher runs, and no order is accepted at a  *)
(* time later than its latest_departure.                                   *)
ExpiredBeforeMatching ==
    /\ [][TickExpiresFirst]_vars
    /\ []NoAcceptanceAfterDeparture

(* an order that the driver in the pool could carry has expired without    *)
(* ever being accepted, and the driver has a free slot                     *)
ExpiredWhileDriverFree ==
    \E oid \in DOMAIN orders, did \in available_drivers :
        /\ orders[oid].status = "EXPIRED"
        /\ orders[oid].accepted_at = NoTime
        /\ orders[oid].latest_departure < current_time
        /\ orders[oid].parcel_volume_l <= drivers[did].capacity_volume_l
        /\ orders[oid].parcel_weight_kg <= drivers[did].max_weight_kg
        /\ Len(drivers[did].current_orders) < drivers[did].max_orders
        /\ Popped("DRIVER_ARRIVAL")

(* C21: a TICK leaves no order in the unassigned pool whose                *)
(* latest_departure is within FleetDispatchThreshold minutes of the tick   *)
(* time while an available fleet vehicle can carry it: such an order has   *)
(* become ACCEPTED and its vehicle unavailable.                            *)
FleetTakesUrgentOrders ==
    [][TickIsNext =>
         \A oid \in unassigned_orders' :
            orders'[oid].latest_departure - Head(event_queue).timestamp
                  <= FleetDispatchThreshold
               => FleetsFor(fleets', orders'[oid]) = {}]_vars

(* the orders a fleet vehicle holds: ACCEPTED and assigned to it *)
FleetOrders(i) ==
    {oid \in DOMAIN orders :
        /\ orders[oid].status = "ACCEPTED"
        /\ orders[oid].assigned_driver_id = "fleet_" \o FleetSeq[i]}

(* C22: a fleet vehicle holds at most one order at a time, a dispatched    *)
(* vehicle eventually becomes available again, and an order taken by a     *)
(* vehicle does not stay ACCEPTED forever.                                 *)
FleetVehiclesCycle ==
    /\ [](\A i \in 1..NumFleets : Cardinality(FleetOrders(i)) <= 1)
    /\ \A i \in 1..NumFleets :
          (~fleets[i].is_available) ~> fleets[i].is_available
    /\ \A i \in 1..NumFleets :
          (FleetOrders(i) # {}) ~> (FleetOrders(i) = {})

(* C23: events with equal timestamps are processed in the order in which   *)
(* they were scheduled, also when one of them was scheduled while another  *)
(* event was being processed: in the log and in the queue, of two events   *)
(* with the same timestamp the one scheduled first comes first.            *)
InsertionOrderTieBreak ==
    /\ \A i, j \in 1..Len(log) :
          (i < j /\ log[i].timestamp = log[j].timestamp)
             => log[i].seq < log[j].seq
    /\ \A i, j \in 1..Len(event_queue) :
          (i < j /\ event_queue[i].timestamp = event_queue[j].timestamp)
             => event_queue[i].seq < event_queue[j].seq
    /\ \A i \in 1..Len(log), j \in 1..Len(event_queue) :
          log[i].timestamp = event_queue[j].timestamp
             => log[i].seq < event_queue[j].seq

(* a TICK of setup and a DELIVERY_COMPLETE scheduled during the run had    *)
(* the same timestamp and were processed in this order                     *)
TickBeforeDeliveryOfSameTime ==
    \E i, j \in 1..Len(log) :
        /\ i < j
        /\ log[i].timestamp = log[j].timestamp
        /\ log[i].event_type = "TICK"
        /\ log[j].event_type = "DELIVERY_COMPLETE"
        /\ log[j].seq > NumTicks + Cardinality(DOMAIN drivers)

(* C24: every run reaches the empty queue after finitely many events:      *)
(* the queue becomes empty; no event is processed twice and no processed   *)
(* event is still queued; every step pops one event, only a TICK adds      *)
(* events, at most two for each order it accepts; matching is triggered    *)
(* only by a TICK that setup scheduled, and no TICK is scheduled later.    *)
EveryRunTerminates ==
    /\ <>(event_queue = <<>>)
    /\ [](\A i, j \in 1..Len(log) : i < j => log[i].seq # log[j].seq)
    /\ [](\A i \in 1..Len(event_queue), j \in 1..Len(log) :
             event_queue[i].seq # log[j].seq)
    /\ [](\A i \in 1..Len(event_queue) :
             event_queue[i].kind = "TICK"
                => event_queue[i].seq <= NumTicks + NumDrivers)
    /\ [][/\ Len(log') = Len(log) + 1
          /\ log'[Len(log')].seq = Head(event_queue).seq
          /\ Len(event_queue') <= Len(event_queue) - 1 + 2 * Len(last_accepts')
          /\ Len(last_accepts') <= Cardinality(unassigned_orders)
          /\ ~TickIsNext => Len(event_queue') = Len(event_queue) - 1
          /\ last_calls' # <<>> => TickIsNext]_vars

(* the queue is empty after a run in which an acceptance scheduled events  *)
QueueEmptyAfterDeliveries ==
    /\ event_queue = <<>>
    /\ \E i \in 1..Len(log) : log[i].event_type = "DELIVERY_COMPLETE"
    /\ \E i \in 1..Len(log) : log[i].event_type = "ORDER_PICKUP"
    /\ Len(log) > NumTicks + 1

(* the times of the day at which setup schedules a TICK *)
TickTimes ==
    {t \in SIMULATION_START_TIME..SIMULATION_END_TIME :
        (t - SIMULATION_START_TIME) % TICK_INTERVAL_MINUTES = 0}

(* C25: after setup and before the first event is processed the queue      *)
(* holds one DRIVER_ARRIVAL per driver at the driver's available_from and  *)
(* one TICK for every multiple of the tick interval from the start to the  *)
(* end of the day, nothing else, ordered by timestamp; every order is      *)
(* PUBLISHED and in the unassigned pool.                                   *)
SetupQueue ==
    log = <<>> =>
        /\ \A did \in DOMAIN drivers :
              /\ Cardinality({i \in 1..Len(event_queue) :
                     /\ event_queue[i].kind = "DRIVER_ARRIVAL"
                     /\ event_queue[i].driver_id = did}) = 1
              /\ \A i \in 1..Len(event_queue) :
                     (event_queue[i].kind = "DRIVER_ARRIVAL"
                        /\ event_queue[i].driver_id = did)
                       => event_queue[i].timestamp = drivers[did].available_from
        /\ \A t \in TickTimes :
              Cardinality({i \in 1..Len(event_queue) :
                     /\ event_queue[i].kind = "TICK"
                     /\ event_queue[i].timestamp = t}) = 1
        /\ \A i \in 1..Len(event_queue) :
              \/ /\ event_queue[i].kind = "DRIVER_ARRIVAL"
                 /\ event_queue[i].driver_id \in DOMAIN drivers
              \/ /\ event_queue[i].kind = "TICK"
                 /\ event_queue[i].timestamp \in TickTimes
        /\ \A i \in 1..(Len(event_queue) - 1) :
              event_queue[i].timestamp <= event_queue[i + 1].timestamp
        /\ \A oid \in DOMAIN orders :
              orders[oid].status = "PUBLISHED" /\ oid \in unassigned_orders

(* the state after setup of a run with two drivers that arrive at          *)
(* different times and an order                                            *)
SetupWithTwoDrivers ==
    /\ log = <<>>
    /\ DOMAIN orders # {}
    /\ \E d1, d2 \in DOMAIN drivers :
          drivers[d1].available_from < drivers[d2].available_from
    /\ Len(event_queue) = Cardinality(TickTimes) + Cardinality(DOMAIN drivers)

InStatus(s) == Cardinality({oid \in DOMAIN orders : orders[oid].status = s})

(* C27 as stated: after update_metrics each count is the number of orders  *)
(* in the status: matched_orders the ACCEPTED and DELIVERED orders,        *)
(* delivered_orders the DELIVERED, expired_orders the EXPIRED and          *)
(* cancelled_orders the CANCELLED ones.                                    *)
CountsByStatus ==
    [][metrics' # metrics =>
         /\ metrics'.matched_orders = InStatus("ACCEPTED")' + InStatus("DELIVERED")'
         /\ metrics'.delivered_orders = InStatus("DELIVERED")'
         /\ metrics'.expired_orders = InStatus("EXPIRED")'
         /\ metrics'.cancelled_orders = InStatus("CANCELLED")']_vars

(* C27, amended: after update_metrics matched_orders, delivered_orders and *)
(* cancelled_orders are the numbers of orders in these statuses, and       *)
(* expired_orders is the number of EXPIRED orders plus the number of       *)
(* orders that are still PUBLISHED.                                        *)
CountsByStatusWithAdjustment ==
    [][metrics' # metrics =>
         /\ metrics'.matched_orders = InStatus("ACCEPTED")' + InStatus("DELIVERED")'
         /\ metrics'.delivered_orders = InStatus("DELIVERED")'
         /\ metrics'.expired_orders = InStatus("EXPIRED")' + InStatus("PUBLISHED")'
         /\ metrics'.cancelled_orders = InStatus("CANCELLED")']_vars

(* the metrics were computed while one order was DELIVERED and another one *)
(* PUBLISHED, and the PUBLISHED order is counted as expired                *)
PublishedReportedExpired ==
    /\ InStatus("DELIVERED") = 1
    /\ InStatus("PUBLISHED") = 1
    /\ InStatus("EXPIRED") = 0
    /\ metrics.total_orders = 2
    /\ metrics.matched_orders = 1
    /\ metrics.delivered_orders = 1
    /\ metrics.expired_orders = 1

(* the sum of base_price over the orders that are DELIVERED *)
RECURSIVE RevenueOf(_)
RevenueOf(oids) ==
    IF oids = {} THEN 0
    ELSE LET oid == CHOOSE x \in oids : TRUE
         IN  (IF orders[oid].status = "DELIVERED" THEN orders[oid].base_price ELSE 0)
               + RevenueOf(oids \ {oid})

(* C28: after update_metrics total_revenue is the sum of base_price over   *)
(* the orders that are DELIVERED now and total_platform_profit the         *)
(* commission on that sum, whatever the tracker held before; both are 0    *)
(* when no order is DELIVERED.                                             *)
KpiFromCurrentState ==
    [][metrics' # metrics =>
         /\ metrics'.total_revenue = RevenueOf(DOMAIN orders)'
         /\ metrics'.total_platform_profit
               = RevenueOf(DOMAIN orders)' * COMMISSION_RATE]_vars

(* the surge factor, in tenths, of the time slot of a time of the day *)
SurgeAt(t) ==
    LET hour == (8 + t \div 60) % 24
    IN  IF hour \in 8..9 THEN 13
        ELSE IF hour \in 10..15 THEN 10
        ELSE IF hour \in 16..19 THEN 14
        ELSE 8

(* C29: for the same order, time and location the dynamic price is the     *)
(* fixed price (rate of the size class times distance) times the surge     *)
(* factor of the time slot, the factor of the service level and one minus  *)
(* the window discount, for every time slot and service level.             *)
DynamicPriceIsFixedTimesFactors ==
    pricing.kind = "price" =>
        /\ pricing.fixed =
              SIZE_BASE_PRICES(pricing.order.parcel_size_class)
                * (IF pricing.base_distance_km = NoDistance
                   THEN Abs(pricing.order.pickup - pricing.order.drop)
                   ELSE pricing.base_distance_km) * 1000
        /\ pricing.dynamic * 1000 =
              pricing.fixed * SurgeAt(pricing.time)
                * SERVICE_LEVEL_FACTORS(pricing.order.service_level)
                * (10 - TIME_SLOT_DISCOUNTS(pricing.order.service_level))

(* a flex order was priced at night: the dynamic price is 51.2% of the     *)
(* fixed price                                                             *)
FlexOrderPricedAtNight ==
    /\ pricing.kind = "price"
    /\ pricing.time = 1000
    /\ pricing.order.service_level = "flex"
    /\ pricing.fixed > 0
    /\ pricing.dynamic * 1000 = pricing.fixed * 512

FeasibilityIsAValue ==
    pricing.kind = "feasible" =>
        /\ pricing.result \in {"True", "False"}
        /\ pricing.reachability \in {"True", "False"}

(* ---- construction from a configuration ---- *)

GenerationParameters ==
    {"total_orders", "metro_drivers", "yango_drivers", "shahzore_trucks"}

(* what the generators take when the configuration does not give the       *)
(* parameter: 200 orders and 13, 50 and 5 drivers in the program, scaled    *)
(* to the populations of the model                                          *)
GenerationDefault(key) ==
    IF key = "total_orders" THEN NumOrders ELSE 1

(* self.config.get(key, default) *)
ConfigGet(cfg, key) ==
    IF cfg[key] = Missing THEN GenerationDefault(key) ELSE cfg[key]

(* the profiles of the drivers in the order of their generation: Metro,    *)
(* Yango, Shahzore                                                          *)
GeneratedDrivers(cfg) ==
    [i \in 1..ConfigGet(cfg, "metro_drivers") |-> 1]
        \o [i \in 1..ConfigGet(cfg, "yango_drivers") |-> 2]
        \o [i \in 1..ConfigGet(cfg, "shahzore_trucks") |-> 3]

(* the configurations a caller may hand to the constructor *)
Configurations ==
    [total_orders : {Missing} \cup 0..2,
     metro_drivers : {Missing, 0, 1},
     yango_drivers : {Missing, 0, 1},
     shahzore_trucks : {Missing, 0, 1},
     max_detour_km : {Missing}]

(* before the constructor has run: nothing exists but the configuration *)
InitSetup ==
    \E cfg \in Configurations :
        /\ orders = <<>>
        /\ drivers = <<>>
        /\ unassigned_orders = {}
        /\ assigned_orders = {}
        /\ available_drivers = {}
        /\ event_queue = <<>>
        /\ current_time = SIMULATION_START_TIME
        /\ tick_number = 0
        /\ completed_deliveries = 0
        /\ metrics = InitMetrics
        /\ log = <<>>
        /\ last_accepts = <<>>
        /\ last_calls = <<>>
        /\ raised = FALSE
        /\ reachable = {}
        /\ fleets = <<>>
        /\ pricing = NoCall
        /\ config = cfg

(* CargoHitchhikingSimulation.__init__: setup_simulation generates the     *)
(* orders, the drivers and the fleets and schedules the initial events     *)
Setup ==
    /\ event_queue = <<>>
    /\ log = <<>>
    /\ LET no == ConfigGet(config, "total_orders")
           di == GeneratedDrivers(config)
       IN  \E oi \in [1..no -> 1..Len(OrderProfileSeq)] :
             /\ NonDecreasing(oi, no)
             /\ LET s == SetupState(no, Len(di), oi, di, <<>>, config)
                IN  /\ orders' = s.orders
                    /\ drivers' = s.drivers
                    /\ unassigned_orders' = s.unassigned_orders
                    /\ available_drivers' = s.available_drivers
                    /\ event_queue' = s.event_queue
                    /\ fleets' = s.fleets
    /\ UNCHANGED <<assigned_orders, current_time, tick_number,
                   completed_deliveries, metrics, log, last_accepts,
                   last_calls, raised, reachable, pricing, config>>

NextSetup == Setup

SpecSetup == InitSetup /\ [][NextSetup]_vars

(* C32: constructing the simulation with a configuration that lacks a      *)
(* generation parameter (the order count or one of the driver counts)      *)
(* fails at setup: no order, no driver and no event exists afterwards.     *)
MissingParameterBuildsNothing ==
    (\E key \in GenerationParameters : config[key] = Missing) =>
        /\ DOMAIN orders = {}
        /\ DOMAIN drivers = {}
        /\ event_queue = <<>>

(* ---- the detour ceiling of a run ---- *)

MAX_DETOUR_KM == 50

(* the ceilings a caller may configure *)
DetourCeilings == {Missing, 2, 5}

(* state.max_detour_km after setup_simulation: the configured value, or    *)
(* MAX_DETOUR_KM when the configuration gives none                         *)
state_max_detour_km ==
    IF config.max_detour_km = Missing THEN MAX_DETOUR_KM
    ELSE config.max_detour_km

InitDetour ==
    \E oi \in [1..1 -> 1..Len(OrderProfileSeq)],
       di \in [1..1 -> 1..Len(DriverProfileSeq)],
       md \in DetourCeilings :
        InitWithConfig(1, 1, oi, di, <<>>,
                       [ConfigOf(1, 1, di) EXCEPT !.max_detour_km = md])

SpecDetour == InitDetour /\ [][Next]_vars

(* C33: no order is accepted by a driver whose detour, the distance from   *)
(* the driver's location to the pickup, exceeds the max_detour_km of the   *)
(* configuration of the run.                                               *)
AcceptedWithinConfiguredDetour ==
    \A i \in 1..Len(last_accepts) :
        check_detour_feasibility(orders[last_accepts[i].order_id],
                                 drivers[last_accepts[i].driver_id],
                                 state_max_detour_km)

(* C34: the matcher is given available drivers only: no order is accepted  *)
(* by a driver before the driver's available_from or after the driver's    *)
(* available_to.                                                           *)
AcceptedInsideAvailability ==
    \A i \in 1..Len(last_accepts) :
        LET d == drivers[last_accepts[i].driver_id]
        IN  /\ d.available_from <= last_accepts[i].time
            /\ last_accepts[i].time <= d.available_to

(* C35: in every reachable state unassigned_orders and assigned_orders are *)
(* disjoint, every order of unassigned_orders is PUBLISHED and every order *)
(* of assigned_orders is ACCEPTED, also after the cancellation of an order *)
(* or of a driver.                                                         *)
PoolsAgreeWithStatus ==
    /\ unassigned_orders \cap assigned_orders = {}
    /\ \A oid \in unassigned_orders : orders[oid].status = "PUBLISHED"
    /\ \A oid \in assigned_orders : orders[oid].status = "ACCEPTED"

(* the DELIVERY_COMPLETE events of order oid that were processed *)
DeliveriesProcessed(oid) ==
    Cardinality({i \in 1..Len(log) : /\ log[i].event_type = "DELIVERY_COMPLETE"
                                     /\ log[i].order_id = oid})

(* C36: each order is accepted at most once: once an order was accepted    *)
(* its assigned_driver_id and accepted_at never change, and at most one    *)
(* DELIVERY_COMPLETE is ever scheduled for it, also when the driver that   *)
(* holds it is cancelled.                                                  *)
AcceptedAtMostOnce ==
    /\ [][\A oid \in DOMAIN orders :
            orders[oid].accepted_at # NoTime =>
                /\ orders'[oid].assigned_driver_id = orders[oid].assigned_driver_id
                /\ orders'[oid].accepted_at = orders[oid].accepted_at]_vars
    /\ [](\A oid \in DOMAIN orders :
            CountEvents(event_queue, "DELIVERY_COMPLETE", oid)
                + DeliveriesProcessed(oid) <= 1)

(* C37: for every accepted order the ORDER_PICKUP event is processed       *)
(* before the DELIVERY_COMPLETE event: its timestamp is not later, and     *)
(* with equal timestamps the pickup is popped first.                       *)
PickupBeforeDelivery ==
    \A j \in 1..Len(log) :
        log[j].event_type = "DELIVERY_COMPLETE" =>
            \E i \in 1..(j - 1) :
                /\ log[i].event_type = "ORDER_PICKUP"
                /\ log[i].order_id = log[j].order_id
                /\ log[i].timestamp <= log[j].timestamp

MinimumWage == 10000

(* C38: a driver's total_earnings never decreases during a run, and it     *)
(* grows by at least the minimum wage (1.0) whenever a DELIVERY_COMPLETE   *)
(* of an order accepted by that driver is processed.                       *)
EarningsOnlyGrow ==
    [][\A did \in DOMAIN drivers \cap DOMAIN drivers' :
          /\ drivers'[did].total_earnings >= drivers[did].total_earnings
          /\ (/\ Len(log') = Len(log) + 1
              /\ Head(event_queue).kind = "DELIVERY_COMPLETE"
              /\ Head(event_queue).driver_id = did)
                 => drivers'[did].total_earnings
                        >= drivers[did].total_earnings + MinimumWage]_vars

(* get_results: the counts of the result summary *)
get_results ==
    [orders |-> Cardinality(DOMAIN orders),
     drivers |-> Cardinality(DOMAIN drivers),
     unmatched_orders |-> Cardinality(unassigned_orders),
     completed_deliveries |-> completed_deliveries]

(* C39: completed_deliveries of the result summary equals the number of    *)
(* orders whose status is DELIVERED and never exceeds the number of        *)
(* orders.                                                                 *)
CompletedDeliveriesCountsDelivered ==
    /\ get_results.completed_deliveries
          = Cardinality({oid \in DOMAIN orders : orders[oid].status = "DELIVERED"})
    /\ get_results.completed_deliveries <= get_results.orders

(* ---- one call of the matcher ---- *)

(* greedy_matching as trigger_matching calls it, on the orders of          *)
(* unassigned_orders and the drivers of available_drivers in any order of  *)
(* iteration; the result of the bundling pass and of the whole call are    *)
(* recorded                                                                *)
MatcherCall ==
    /\ unassigned_orders # {}
    /\ available_drivers # {}
    /\ \E ords \in Orderings(unassigned_orders),
          drvs \in Orderings(available_drivers) :
          pricing' = [kind |-> "matching",
                      bundling |-> greedy_matching_yango_bus_stop_pickup(
                                       ords, drvs, orders, drivers),
                      assignments |-> greedy_matching(ords, drvs, orders, drivers)]
    /\ UNCHANGED <<orders, drivers, unassigned_orders, assigned_orders,
                   available_drivers, event_queue, current_time,
                   tick_number, completed_deliveries, metrics, log,
                   last_accepts, last_calls, raised, reachable, fleets,
                   config>>

(* the run up to the call that is looked at *)
NextMatcher ==
    \/ MatcherCall
    \/ (pricing = NoCall /\ DriverArrival)
    \/ (pricing = NoCall /\ Tick)
    \/ (pricing = NoCall /\ OrderPickup)
    \/ (pricing = NoCall /\ DeliveryComplete)

SpecMatcher == Init /\ [][NextMatcher]_vars

(* the pairs the fallback pass added to those of the bundling pass *)
FallbackPairs ==
    SubSeq(pricing.assignments, Len(pricing.bundling) + 1,
           Len(pricing.assignments))

(* C40: in the bundling pass of one matcher call a bundling-class (Yango)  *)
(* driver receives orders of a single destination grid cell only, at most  *)
(* max_orders of them, each passing can_accept_order; a driver served in   *)
(* the bundling pass gets no order from the fallback pass of the same      *)
(* call, and the fallback pass gives each remaining driver at most one     *)
(* order.                                                                  *)
MatcherPassesKeepTheirLimits ==
    pricing.kind = "matching" =>
        LET b == pricing.bundling
            f == FallbackPairs
        IN  /\ SubSeq(pricing.assignments, 1, Len(b)) = b
            /\ \A i \in 1..Len(b) :
                  /\ drivers[b[i][2]].driver_type = "yango"
                  /\ can_accept_order(drivers[b[i][2]], orders[b[i][1]])
                  /\ Cardinality({j \in 1..Len(b) : b[j][2] = b[i][2]})
                        <= drivers[b[i][2]].max_orders
                  /\ \A j \in 1..Len(b) :
                        b[j][2] = b[i][2] =>
                            get_delivery_area(orders[b[j][1]])
                                = get_delivery_area(orders[b[i][1]])
            /\ \A i \in 1..Len(f) :
                  /\ \A j \in 1..Len(b) : f[i][2] # b[j][2]
                  /\ \A j \in 1..Len(f) : f[j][2] = f[i][2] => j = i

(* a call whose bundling pass gave a Yango driver two orders and whose     *)
(* fallback pass gave another driver one                                   *)
BundleOfTwoAndFallback ==
    /\ pricing.kind = "matching"
    /\ Len(pricing.bundling) = 2
    /\ pricing.bundling[1][2] = pricing.bundling[2][2]
    /\ Len(pricing.assignments) = 3
====
